---- MODULE Spec2Model ----
(***************************************************************************)
(* A model of encypher/core/unicode_metadata.py: the variation-selector   *)
(* codec, the target finder, embed_metadata, and the extractor/verifier.  *)
(*                                                                         *)
(* Texts are sequences of Unicode code points, byte strings are sequences *)
(* of integers 0..255.  Python's None is the value NoneInt where an       *)
(* integer is expected and the value Null where a JSON-like value is      *)
(* expected.  Python list indices are kept 0-based, as in the source;     *)
(* the helper At(s, i) reads s[i] of a Python sequence.                   *)
(***************************************************************************)
EXTENDS Integers, Sequences, FiniteSets, TLC

\* ------------------------------------------------------------------------
\* Bounds of the model
\* ------------------------------------------------------------------------

\* Length of the byte strings the codec specification enumerates.
MaxBytesLen == 3

\* Number of signature bytes the signature primitive produces.
SigBytes == 4

\* ------------------------------------------------------------------------
\* Generic helpers
\* ------------------------------------------------------------------------

NoneInt == 0 - 1

At(s, i) == s[i + 1]

\* Python slice s[a:b] for 0 <= a, b.
Slice(s, a, b) == SubSeq(s, a + 1, IF b > Len(s) THEN Len(s) ELSE b)

\* The one element of a one-element set: The({e : x \in {v}}) is e with x
\* standing for the value of v.
The(S) == CHOOSE x \in S : TRUE

RECURSIVE Flatten(_)
Flatten(ss) ==
    IF Len(ss) = 0 THEN <<>>
    ELSE IF Len(ss) = 1 THEN ss[1]
    ELSE LET h == Len(ss) \div 2
         IN  Flatten(SubSeq(ss, 1, h)) \o Flatten(SubSeq(ss, h + 1, Len(ss)))

\* ------------------------------------------------------------------------
\* The variation-selector codec
\* ------------------------------------------------------------------------

VARIATION_SELECTOR_START == 65024
VARIATION_SELECTOR_END == 65039
VARIATION_SELECTOR_SUPPLEMENT_START == 917760
VARIATION_SELECTOR_SUPPLEMENT_END == 917999

\* A plausible slip: the supplement block entered at its first code point
\* without subtracting the 16 bytes the primary block already covers.
to_variation_selector_NoOffset(byte) ==
    IF 0 <= byte /\ byte < 16 THEN VARIATION_SELECTOR_START + byte
    ELSE IF 16 <= byte /\ byte < 256 THEN VARIATION_SELECTOR_SUPPLEMENT_START + byte
    ELSE NoneInt

to_variation_selector(byte) ==
    IF 0 <= byte /\ byte < 16 THEN VARIATION_SELECTOR_START + byte
    ELSE IF 16 <= byte /\ byte < 256
         THEN VARIATION_SELECTOR_SUPPLEMENT_START + byte - 16
    ELSE NoneInt

from_variation_selector(code_point) ==
    IF VARIATION_SELECTOR_START <= code_point /\ code_point <= VARIATION_SELECTOR_END
    THEN code_point - VARIATION_SELECTOR_START
    ELSE IF VARIATION_SELECTOR_SUPPLEMENT_START <= code_point
            /\ code_point <= VARIATION_SELECTOR_SUPPLEMENT_END
         THEN (code_point - VARIATION_SELECTOR_SUPPLEMENT_START) + 16
    ELSE NoneInt

IsVS(code_point) == from_variation_selector(code_point) # NoneInt

\* One turn of the loop of extract_bytes: st.i is the index (0-based) of
\* the character looked at, st.decoded the bytes collected so far, st.done
\* tells that the loop has ended (the text is exhausted, or the break).
ExtractStep(text, st) ==
    IF st.done \/ st.i >= Len(text) THEN [st EXCEPT !.done = TRUE]
    ELSE LET byte == from_variation_selector(At(text, st.i))
         IN  IF byte # NoneInt
             THEN [st EXCEPT !.i = st.i + 1, !.decoded = Append(st.decoded, byte)]
             ELSE IF Len(st.decoded) > 0 THEN [st EXCEPT !.done = TRUE]
             ELSE [st EXCEPT !.i = st.i + 1]

\* n turns of the loop.
RECURSIVE ExtractLoop(_, _, _)
ExtractLoop(text, st, n) ==
    IF n = 0 THEN st
    ELSE IF n = 1 THEN ExtractStep(text, st)
    ELSE LET half == ExtractLoop(text, st, n \div 2)
         IN  IF half.done THEN half ELSE ExtractLoop(text, half, n - (n \div 2))

\* A plausible slip: the scan does not stop at the first character that
\* follows the run and gathers every selector of the text.
extract_bytes_NoBreak(text) ==
    LET bs == [i \in 1..Len(text) |-> from_variation_selector(text[i])]
    IN  SelectSeq(bs, LAMBDA b : b # NoneInt)

extract_bytes(text) ==
    ExtractLoop(text, [i |-> 0, decoded |-> <<>>, done |-> FALSE], Len(text)).decoded

\* _bytes_to_variation_selectors: the list of selectors, or the marker
\* "ValueError" when some element is no byte.
bytes_to_variation_selectors_Rev(data) ==
    [i \in 1..Len(data) |-> to_variation_selector(data[Len(data) + 1 - i])]

bytes_to_variation_selectors(data) ==
    LET selectors == [i \in 1..Len(data) |-> to_variation_selector(data[i])]
        valid_selectors == SelectSeq(selectors, LAMBDA s : s # NoneInt)
    IN  IF Len(valid_selectors) # Len(data) THEN <<NoneInt>>
        ELSE valid_selectors

\* ------------------------------------------------------------------------
\* Python values that travel in an envelope
\* ------------------------------------------------------------------------
\* Every value is a record of one shape: t is the Python type ("null",
\* "str", "int", "map" for dict, "list"), s the code points of a str (or the
\* one number of an int), m the entries of a dict in insertion order as
\* pairs <<key, value>> (keys are strs, given by their code points); the
\* items of a list are the second components of m.

Null == [t |-> "null", s |-> <<>>, m |-> <<>>]
Str(cps) == [t |-> "str", s |-> cps, m |-> <<>>]
IntV(n) == [t |-> "int", s |-> <<n>>, m |-> <<>>]
Map(entries) == [t |-> "map", s |-> <<>>, m |-> entries]
List(items) == [t |-> "list", s |-> <<>>,
                m |-> [i \in 1..Len(items) |-> <<<<>>, items[i]>>]]

IsDict(v) == v.t = "map"
IsStr(v) == v.t = "str"

\* k in d
HasKey(d, k) == \E i \in 1..Len(d.m) : d.m[i][1] = k

\* d[k], for a key that is present
GetKey(d, k) == d.m[CHOOSE i \in 1..Len(d.m) : d.m[i][1] = k][2]

\* d[k] = v: an existing key keeps its place, a new key goes last
SetKey(d, k, v) ==
    IF HasKey(d, k)
    THEN Map([i \in 1..Len(d.m) |-> IF d.m[i][1] = k THEN <<k, v>> ELSE d.m[i]])
    ELSE Map(Append(d.m, <<k, v>>))

Truthy(v) == v.t = "int" \/ Len(v.s) > 0 \/ Len(v.m) > 0

\* dict(x), as called on the payloads: a dict is copied, an empty list or
\* an empty str gives {}, and anything else raises (TypeError for None and
\* numbers, ValueError for a str or a list of non-pairs).  "ok" tells
\* whether the call returned.
DictOf(x) ==
    IF x.t = "map" THEN [ok |-> TRUE, v |-> x]
    ELSE IF x.t \in {"str", "list"} /\ ~Truthy(x) THEN [ok |-> TRUE, v |-> Map(<<>>)]
    ELSE [ok |-> FALSE, v |-> Null]

\* ------------------------------------------------------------------------
\* ASCII names used by the byte formats
\* ------------------------------------------------------------------------

\* The keys of the payloads and of the envelope, as code points.
Key ==
    [payload |-> <<112, 97, 121, 108, 111, 97, 100>>,
     signature |-> <<115, 105, 103, 110, 97, 116, 117, 114, 101>>,
     signer_id |-> <<115, 105, 103, 110, 101, 114, 95, 105, 100>>,
     format |-> <<102, 111, 114, 109, 97, 116>>,
     timestamp |-> <<116, 105, 109, 101, 115, 116, 97, 109, 112>>,
     model_id |-> <<109, 111, 100, 101, 108, 95, 105, 100>>,
     generationID |-> <<103, 101, 110, 101, 114, 97, 116, 105, 111, 110, 73, 68>>,
     custom_metadata |-> <<99, 117, 115, 116, 111, 109, 95, 109, 101, 116, 97, 100, 97, 116, 97>>,
     manifest |-> <<109, 97, 110, 105, 102, 101, 115, 116>>,
     claim_generator |-> <<99, 108, 97, 105, 109, 95, 103, 101, 110, 101, 114, 97, 116, 111, 114>>,
     actions |-> <<97, 99, 116, 105, 111, 110, 115>>,
     ai_info |-> <<97, 105, 95, 105, 110, 102, 111>>,
     custom_claims |-> <<99, 117, 115, 116, 111, 109, 95, 99, 108, 97, 105, 109, 115>>]

\* The values "basic" and "manifest" of metadata_format, the JSON text of
\* None, and the tag in front of a JUMBF serialization.
Lit ==
    [basic |-> <<98, 97, 115, 105, 99>>,
     manifest |-> <<109, 97, 110, 105, 102, 101, 115, 116>>,
     null |-> <<110, 117, 108, 108>>,
     JUMBF |-> <<74, 85, 77, 66, 70>>]

\* ------------------------------------------------------------------------
\* UTF-8 (str.encode("utf-8") and bytes.decode("utf-8"))
\* ------------------------------------------------------------------------

Utf8EncodeChar(cp) ==
    IF cp < 128 THEN <<cp>>
    ELSE IF cp < 2048 THEN <<192 + (cp \div 64), 128 + (cp % 64)>>
    ELSE IF cp < 65536
         THEN <<224 + (cp \div 4096), 128 + ((cp \div 64) % 64), 128 + (cp % 64)>>
    ELSE <<240 + (cp \div 262144), 128 + ((cp \div 4096) % 64),
           128 + ((cp \div 64) % 64), 128 + (cp % 64)>>

Utf8Encode(cps) == Flatten([i \in 1..Len(cps) |-> Utf8EncodeChar(cps[i])])

IsCont(bs, i) == i <= Len(bs) /\ 128 <= bs[i] /\ bs[i] <= 191

\* One turn of the decoding loop: st.i is the byte looked at (1-based),
\* st.s the characters decoded so far; st.ok is FALSE where Python raises
\* UnicodeDecodeError.
Utf8DecodeStep(bs, st) ==
    IF ~st.ok \/ st.i > Len(bs) THEN st
    ELSE LET i == st.i
             b == bs[i]
             bad == [st EXCEPT !.ok = FALSE, !.s = <<>>]
             take(k, cp) == [st EXCEPT !.i = i + k, !.s = Append(st.s, cp)]
         IN  IF b < 128 THEN take(1, b)
             ELSE IF 194 <= b /\ b <= 223
             THEN IF IsCont(bs, i + 1)
                  THEN take(2, (b - 192) * 64 + (bs[i + 1] - 128))
                  ELSE bad
             ELSE IF 224 <= b /\ b <= 239
             THEN IF IsCont(bs, i + 1) /\ IsCont(bs, i + 2)
                  THEN LET cp == (b - 224) * 4096 + (bs[i + 1] - 128) * 64
                                 + (bs[i + 2] - 128)
                       IN  IF cp < 2048 \/ (55296 <= cp /\ cp <= 57343) THEN bad
                           ELSE take(3, cp)
                  ELSE bad
             ELSE IF 240 <= b /\ b <= 244
             THEN IF IsCont(bs, i + 1) /\ IsCont(bs, i + 2) /\ IsCont(bs, i + 3)
                  THEN LET cp == (b - 240) * 262144 + (bs[i + 1] - 128) * 4096
                                 + (bs[i + 2] - 128) * 64 + (bs[i + 3] - 128)
                       IN  IF cp < 65536 \/ cp > 1114111 THEN bad
                           ELSE take(4, cp)
                  ELSE bad
             ELSE bad

RECURSIVE Utf8DecodeLoop(_, _, _)
Utf8DecodeLoop(bs, st, n) ==
    IF n = 0 THEN st
    ELSE IF n = 1 THEN Utf8DecodeStep(bs, st)
    ELSE LET half == Utf8DecodeLoop(bs, st, n \div 2)
         IN  IF ~half.ok THEN half ELSE Utf8DecodeLoop(bs, half, n - (n \div 2))

\* bytes.decode("utf-8"): ok and the characters s.
Utf8Decode(bs) == Utf8DecodeLoop(bs, [i |-> 1, s |-> <<>>, ok |-> TRUE], Len(bs))

\* ------------------------------------------------------------------------
\* JSON (json.dumps with compact separators, json.loads)
\* ------------------------------------------------------------------------

HexDigit(n) == IF n < 10 THEN 48 + n ELSE 87 + n

HexValue(c) ==
    IF 48 <= c /\ c <= 57 THEN c - 48
    ELSE IF 97 <= c /\ c <= 102 THEN c - 87
    ELSE IF 65 <= c /\ c <= 70 THEN c - 55
    ELSE NoneInt

\* One character of a str inside a JSON string (ensure_ascii).
JsonEscapeChar(cp) ==
    IF cp = 34 THEN <<92, 34>>
    ELSE IF cp = 92 THEN <<92, 92>>
    ELSE IF cp = 10 THEN <<92, 110>>
    ELSE IF cp = 13 THEN <<92, 114>>
    ELSE IF cp = 9 THEN <<92, 116>>
    ELSE IF cp = 8 THEN <<92, 98>>
    ELSE IF cp = 12 THEN <<92, 102>>
    ELSE IF 32 <= cp /\ cp <= 126 THEN <<cp>>
    ELSE <<92, 117, HexDigit((cp \div 4096) % 16), HexDigit((cp \div 256) % 16),
           HexDigit((cp \div 16) % 16), HexDigit(cp % 16)>>

JsonString(cps) ==
    <<34>> \o Flatten([i \in 1..Len(cps) |-> JsonEscapeChar(cps[i])]) \o <<34>>

RECURSIVE Decimal(_)
Decimal(n) == IF n < 10 THEN <<48 + n>> ELSE Append(Decimal(n \div 10), 48 + (n % 10))

\* json.dumps(v, separators=(",", ":")): keys in insertion order.
RECURSIVE JsonText(_)
JsonText(v) ==
    CASE v.t = "null" -> Lit.null
      [] v.t = "str" -> JsonString(v.s)
      [] v.t = "int" -> Decimal(v.s[1])
      [] v.t = "map" ->
            <<123>>
            \o Flatten([i \in 1..Len(v.m) |->
                   (IF i > 1 THEN <<44>> ELSE <<>>)
                   \o JsonString(v.m[i][1]) \o <<58>> \o JsonText(v.m[i][2])])
            \o <<125>>
      [] v.t = "list" ->
            <<91>>
            \o Flatten([i \in 1..Len(v.m) |->
                   (IF i > 1 THEN <<44>> ELSE <<>>) \o JsonText(v.m[i][2])])
            \o <<93>>

JsonDumps(v) == Utf8Encode(JsonText(v))

JFail == [ok |-> FALSE, v |-> Null, i |-> 0]

IsJsonWs(c) == c \in {32, 9, 10, 13}

RECURSIVE SkipWs(_, _)
SkipWs(cs, i) == IF i <= Len(cs) /\ IsJsonWs(cs[i]) THEN SkipWs(cs, i + 1) ELSE i

\* The body of a JSON string from character i on (after the opening quote).
RECURSIVE JsonStringLoop(_, _, _)
JsonStringLoop(cs, i, acc) ==
    IF i > Len(cs) THEN JFail
    ELSE LET c == cs[i]
         IN  IF c = 34 THEN [ok |-> TRUE, v |-> Str(acc), i |-> i + 1]
             ELSE IF c < 32 THEN JFail
             ELSE IF c # 92 THEN JsonStringLoop(cs, i + 1, Append(acc, c))
             ELSE IF i + 1 > Len(cs) THEN JFail
             ELSE LET e == cs[i + 1]
                  IN  IF e \in {34, 92, 47} THEN JsonStringLoop(cs, i + 2, Append(acc, e))
                      ELSE IF e = 98 THEN JsonStringLoop(cs, i + 2, Append(acc, 8))
                      ELSE IF e = 102 THEN JsonStringLoop(cs, i + 2, Append(acc, 12))
                      ELSE IF e = 110 THEN JsonStringLoop(cs, i + 2, Append(acc, 10))
                      ELSE IF e = 114 THEN JsonStringLoop(cs, i + 2, Append(acc, 13))
                      ELSE IF e = 116 THEN JsonStringLoop(cs, i + 2, Append(acc, 9))
                      ELSE IF e = 117 /\ i + 5 <= Len(cs)
                              /\ \A k \in 2..5 : HexValue(cs[i + k]) # NoneInt
                      THEN JsonStringLoop(cs, i + 6,
                               Append(acc, HexValue(cs[i + 2]) * 4096
                                           + HexValue(cs[i + 3]) * 256
                                           + HexValue(cs[i + 4]) * 16
                                           + HexValue(cs[i + 5])))
                      ELSE JFail

RECURSIVE JsonDigits(_, _, _)
JsonDigits(cs, i, n) ==
    IF i <= Len(cs) /\ 48 <= cs[i] /\ cs[i] <= 57
    THEN JsonDigits(cs, i + 1, n * 10 + (cs[i] - 48))
    ELSE [ok |-> TRUE, v |-> IntV(n), i |-> i]

\* One JSON value from character i on.  Of the JSON grammar the model
\* reads objects, arrays, strings, null and non-negative integers; a text
\* holding any other token (true, false, a sign, a fraction, an exponent)
\* is outside the model and read as a failure.
RECURSIVE JsonValue(_, _), JsonMembers(_, _, _), JsonItems(_, _, _)
JsonValue(cs, i) ==
    IF i > Len(cs) THEN JFail
    ELSE LET c == cs[i]
         IN  IF c = 34 THEN JsonStringLoop(cs, i + 1, <<>>)
             ELSE IF c = 123
             THEN LET j == SkipWs(cs, i + 1)
                  IN  IF j <= Len(cs) /\ cs[j] = 125
                      THEN [ok |-> TRUE, v |-> Map(<<>>), i |-> j + 1]
                      ELSE JsonMembers(cs, j, Map(<<>>))
             ELSE IF c = 91
             THEN LET j == SkipWs(cs, i + 1)
                  IN  IF j <= Len(cs) /\ cs[j] = 93
                      THEN [ok |-> TRUE, v |-> List(<<>>), i |-> j + 1]
                      ELSE JsonItems(cs, j, <<>>)
             ELSE IF c = 110
             THEN IF i + 3 <= Len(cs) /\ SubSeq(cs, i, i + 3) = Lit.null
                  THEN [ok |-> TRUE, v |-> Null, i |-> i + 4]
                  ELSE JFail
             ELSE IF c = 48
             THEN IF i + 1 <= Len(cs) /\ cs[i + 1] \in {46, 69, 101} THEN JFail
                  ELSE [ok |-> TRUE, v |-> IntV(0), i |-> i + 1]
             ELSE IF 49 <= c /\ c <= 57
             THEN LET r == JsonDigits(cs, i, 0)
                  IN  IF r.i <= Len(cs) /\ cs[r.i] \in {46, 69, 101} THEN JFail ELSE r
             ELSE JFail

\* The members of an object from the key at character i on; d holds the
\* members read so far (a repeated key keeps its place and takes the last
\* value, as in a Python dict).
JsonMembers(cs, i, d) ==
    IF i > Len(cs) \/ cs[i] # 34 THEN JFail
    ELSE The({
        IF ~k.ok THEN JFail
        ELSE LET j == SkipWs(cs, k.i)
             IN  IF j > Len(cs) \/ cs[j] # 58 THEN JFail
                 ELSE The({
                     IF ~r.ok THEN JFail
                     ELSE LET e == SkipWs(cs, r.i)
                          IN  IF e > Len(cs) THEN JFail
                              ELSE IF cs[e] = 125
                              THEN [ok |-> TRUE, v |-> SetKey(d, k.v.s, r.v), i |-> e + 1]
                              ELSE IF cs[e] = 44
                              THEN JsonMembers(cs, SkipWs(cs, e + 1), SetKey(d, k.v.s, r.v))
                              ELSE JFail
                     : r \in {JsonValue(cs, SkipWs(cs, j + 1))}})
        : k \in {JsonStringLoop(cs, i + 1, <<>>)}})

JsonItems(cs, i, items) ==
    The({
        IF ~r.ok THEN JFail
        ELSE LET e == SkipWs(cs, r.i)
             IN  IF e > Len(cs) THEN JFail
                 ELSE IF cs[e] = 93
                 THEN [ok |-> TRUE, v |-> List(Append(items, r.v)), i |-> e + 1]
                 ELSE IF cs[e] = 44
                 THEN JsonItems(cs, SkipWs(cs, e + 1), Append(items, r.v))
                 ELSE JFail
        : r \in {JsonValue(cs, i)}})

\* json.loads(data.decode("utf-8")): ok is FALSE where either call raises.
JsonLoads(data) ==
    The({
        IF ~d.ok THEN JFail
        ELSE The({IF r.ok /\ SkipWs(d.s, r.i) > Len(d.s) THEN r ELSE JFail
                  : r \in {JsonValue(d.s, SkipWs(d.s, 1))}})
        : d \in {Utf8Decode(data)}})

\* ------------------------------------------------------------------------
\* CBOR (cbor2.dumps, cbor2.loads)
\* ------------------------------------------------------------------------

\* The head of a data item: major type and argument.
CborHead(major, n) ==
    IF n < 24 THEN <<major * 32 + n>>
    ELSE IF n < 256 THEN <<major * 32 + 24, n>>
    ELSE <<major * 32 + 25, n \div 256, n % 256>>

RECURSIVE CborDumps(_)
CborDumps(v) ==
    CASE v.t = "null" -> <<246>>
      [] v.t = "int" -> CborHead(0, v.s[1])
      [] v.t = "str" -> LET bs == Utf8Encode(v.s) IN CborHead(3, Len(bs)) \o bs
      [] v.t = "list" ->
            CborHead(4, Len(v.m)) \o Flatten([i \in 1..Len(v.m) |-> CborDumps(v.m[i][2])])
      [] v.t = "map" ->
            CborHead(5, Len(v.m))
            \o Flatten([i \in 1..Len(v.m) |->
                   CborDumps(Str(v.m[i][1])) \o CborDumps(v.m[i][2])])

\* The argument of the head at byte i: [ok, n, i] with i the byte after it.
CborArg(bs, i) ==
    LET info == bs[i] % 32
    IN  IF info < 24 THEN [ok |-> TRUE, n |-> info, i |-> i + 1]
        ELSE IF info = 24 /\ i + 1 <= Len(bs)
        THEN [ok |-> TRUE, n |-> bs[i + 1], i |-> i + 2]
        ELSE IF info = 25 /\ i + 2 <= Len(bs)
        THEN [ok |-> TRUE, n |-> bs[i + 1] * 256 + bs[i + 2], i |-> i + 3]
        ELSE [ok |-> FALSE, n |-> 0, i |-> 0]

\* One data item from byte i on.  The model reads unsigned integers, text
\* strings, arrays, maps with text keys and null, with arguments of up to
\* two bytes; any other head is outside the model and read as a failure.
\* A premature end of the input fails, as CBORDecodeEOF does.
RECURSIVE CborItem(_, _), CborItems(_, _, _, _), CborPairs(_, _, _, _)
CborItem(bs, i) ==
    IF i > Len(bs) THEN JFail
    ELSE IF bs[i] = 246 THEN [ok |-> TRUE, v |-> Null, i |-> i + 1]
    ELSE The({
        LET major == bs[i] \div 32
        IN  IF major \notin {0, 3, 4, 5} \/ ~a.ok THEN JFail
            ELSE IF major = 0 THEN [ok |-> TRUE, v |-> IntV(a.n), i |-> a.i]
            ELSE IF major = 3
            THEN IF a.i + a.n - 1 > Len(bs) THEN JFail
                 ELSE The({IF d.ok THEN [ok |-> TRUE, v |-> Str(d.s), i |-> a.i + a.n]
                           ELSE JFail
                           : d \in {Utf8Decode(SubSeq(bs, a.i, a.i + a.n - 1))}})
            ELSE IF major = 4 THEN CborItems(bs, a.i, a.n, <<>>)
            ELSE CborPairs(bs, a.i, a.n, Map(<<>>))
        : a \in {CborArg(bs, i)}})

CborItems(bs, i, n, items) ==
    IF n = 0 THEN [ok |-> TRUE, v |-> List(items), i |-> i]
    ELSE The({IF ~r.ok THEN JFail ELSE CborItems(bs, r.i, n - 1, Append(items, r.v))
              : r \in {CborItem(bs, i)}})

CborPairs(bs, i, n, d) ==
    IF n = 0 THEN [ok |-> TRUE, v |-> d, i |-> i]
    ELSE The({
        IF ~k.ok \/ k.v.t # "str" THEN JFail
        ELSE The({IF ~r.ok THEN JFail
                  ELSE CborPairs(bs, r.i, n - 1, SetKey(d, k.v.s, r.v))
                  : r \in {CborItem(bs, k.i)}})
        : k \in {CborItem(bs, i)}})

\* cbor2.loads(data): the first data item; bytes after it are not read.
CborLoads(data) == CborItem(data, 1)

\* ------------------------------------------------------------------------
\* URL-safe base64 (base64.urlsafe_b64encode, base64.urlsafe_b64decode)
\* ------------------------------------------------------------------------

B64Char(n) ==
    IF n < 26 THEN 65 + n
    ELSE IF n < 52 THEN 97 + (n - 26)
    ELSE IF n < 62 THEN 48 + (n - 52)
    ELSE IF n = 62 THEN 45
    ELSE 95

\* The value of a character of the decoder's alphabet, NoneInt for any other
\* character: after the translation of "-" and "_" the standard alphabet
\* is read, so "+" and "/" decode as well.
B64Value(c) ==
    IF 65 <= c /\ c <= 90 THEN c - 65
    ELSE IF 97 <= c /\ c <= 122 THEN c - 97 + 26
    ELSE IF 48 <= c /\ c <= 57 THEN c - 48 + 52
    ELSE IF c \in {45, 43} THEN 62
    ELSE IF c \in {95, 47} THEN 63
    ELSE NoneInt

RECURSIVE B64EncodeLoop(_, _)
B64EncodeLoop(bs, i) ==
    LET left == Len(bs) - i + 1
    IN  IF left <= 0 THEN <<>>
        ELSE IF left = 1
        THEN <<B64Char(bs[i] \div 4), B64Char((bs[i] % 4) * 16), 61, 61>>
        ELSE IF left = 2
        THEN <<B64Char(bs[i] \div 4),
               B64Char((bs[i] % 4) * 16 + (bs[i + 1] \div 16)),
               B64Char((bs[i + 1] % 16) * 4), 61>>
        ELSE <<B64Char(bs[i] \div 4),
               B64Char((bs[i] % 4) * 16 + (bs[i + 1] \div 16)),
               B64Char((bs[i + 1] % 16) * 4 + (bs[i + 2] \div 64)),
               B64Char(bs[i + 2] % 64)>> \o B64EncodeLoop(bs, i + 3)

urlsafe_b64encode(bs) == B64EncodeLoop(bs, 1)

\* bytes.rstrip(b"=")
RECURSIVE RStripPad(_)
RStripPad(cs) ==
    IF Len(cs) > 0 /\ cs[Len(cs)] = 61 THEN RStripPad(SubSeq(cs, 1, Len(cs) - 1)) ELSE cs

\* binascii.a2b_base64 without strict mode: characters outside the
\* alphabet are skipped, a completed pad sequence ends the reading, and a
\* quad left open at the end is an error.
\* One turn of the decoder's loop, on the character at st.i: quad_pos is
\* the place in the quad being read, leftchar the bits left over, pads the
\* "=" seen, and done is set when a completed pad sequence ends the reading.
B64DecodeStep(cs, st) ==
    IF st.done \/ st.i > Len(cs) THEN st
    ELSE LET c == cs[st.i]
             this_ch == B64Value(c)
             next == [st EXCEPT !.i = st.i + 1]
         IN  IF c = 61
             THEN IF st.quad_pos >= 2 /\ st.quad_pos + st.pads + 1 >= 4
                  THEN [st EXCEPT !.done = TRUE]
                  ELSE [next EXCEPT !.pads = IF st.quad_pos >= 2 THEN st.pads + 1
                                             ELSE st.pads]
             ELSE IF this_ch = NoneInt THEN next
             ELSE IF st.quad_pos = 0
             THEN [next EXCEPT !.quad_pos = 1, !.leftchar = this_ch, !.pads = 0]
             ELSE IF st.quad_pos = 1
             THEN [next EXCEPT !.quad_pos = 2, !.leftchar = this_ch % 16, !.pads = 0,
                               !.out = Append(st.out, st.leftchar * 4 + (this_ch \div 16))]
             ELSE IF st.quad_pos = 2
             THEN [next EXCEPT !.quad_pos = 3, !.leftchar = this_ch % 4, !.pads = 0,
                               !.out = Append(st.out, st.leftchar * 16 + (this_ch \div 4))]
             ELSE [next EXCEPT !.quad_pos = 0, !.leftchar = 0, !.pads = 0,
                               !.out = Append(st.out, st.leftchar * 64 + this_ch)]

\* n turns of the loop.
RECURSIVE B64DecodeLoop(_, _, _)
B64DecodeLoop(cs, st, n) ==
    IF n = 0 THEN st
    ELSE IF n = 1 THEN B64DecodeStep(cs, st)
    ELSE LET half == B64DecodeLoop(cs, st, n \div 2)
         IN  IF half.done THEN half ELSE B64DecodeLoop(cs, half, n - (n \div 2))

\* base64.urlsafe_b64decode(s) for a str s: err is "ValueError" for a str
\* with a non-ASCII character, "binascii.Error" for a bad encoding.
urlsafe_b64decode(cs) ==
    IF \E i \in 1..Len(cs) : cs[i] >= 128
    THEN [err |-> "ValueError", bytes |-> <<>>]
    ELSE The({IF st.done \/ st.quad_pos = 0 THEN [err |-> "none", bytes |-> st.out]
              ELSE [err |-> "binascii.Error", bytes |-> <<>>]
              : st \in {B64DecodeLoop(cs, [i |-> 1, quad_pos |-> 0, leftchar |-> 0,
                                           pads |-> 0, out |-> <<>>, done |-> FALSE],
                                      Len(cs))}})

\* ------------------------------------------------------------------------
\* Keys and the signature primitive (crypto_utils)
\* ------------------------------------------------------------------------
\* Key objects are named: "skA" and "skB" are Ed25519 private keys, "pkA"
\* and "pkB" their public keys, "rsa_sk" and "rsa_pk" keys of another
\* asymmetric type, "object" a value that is no key, "None" is None.

PrivateKeys == {"skA", "skB"}
PublicKeys == {"pkA", "pkB"}

PrivateOf(pk) == IF pk = "pkA" THEN "skA" ELSE "skB"
PublicOf(sk) == IF sk = "skA" THEN "pkA" ELSE "pkB"
KeyTag(sk) == IF sk = "skA" THEN 65 ELSE 66

\* The sum of i * (msg[i] + 1) over the bytes lo..hi of the message, modulo
\* 65521.
RECURSIVE WeightedSum(_, _, _)
WeightedSum(msg, lo, hi) ==
    IF lo > hi THEN 0
    ELSE IF lo = hi THEN (lo * (msg[lo] + 1)) % 65521
    ELSE LET mid == (lo + hi) \div 2
         IN  (WeightedSum(msg, lo, mid) + WeightedSum(msg, mid + 1, hi)) % 65521

\* sign_payload(private_key, payload_bytes): a deterministic signature of
\* SigBytes bytes, a function of the key and of every byte of the message.
sign_payload(private_key, payload_bytes) ==
    LET h == WeightedSum(payload_bytes, 1, Len(payload_bytes))
    IN  [i \in 1..SigBytes |->
            IF i = 1 THEN KeyTag(private_key)
            ELSE IF i = 2 THEN h \div 256
            ELSE IF i = 3 THEN h % 256
            ELSE (Len(payload_bytes) + i) % 256]

\* verify_signature(public_key, payload_bytes, signature): err is
\* "TypeError" for a key that is no Ed25519 public key; otherwise valid
\* tells whether the signature is the key's signature of the bytes.
verify_signature(public_key, payload_bytes, signature) ==
    IF public_key \notin PublicKeys THEN [err |-> "TypeError", valid |-> FALSE]
    ELSE [err |-> "none",
          valid |-> signature = sign_payload(PrivateOf(public_key), payload_bytes)]

\* ------------------------------------------------------------------------
\* Serialization of payloads (crypto_utils.serialize_payload)
\* ------------------------------------------------------------------------

\* serialize_payload(payload, format): format is "json" (the default),
\* "cbor" or "jumbf".
serialize_payload(payload, format) ==
    IF format = "cbor" THEN CborDumps(payload)
    ELSE IF format = "jumbf" THEN Lit.JUMBF \o JsonDumps(payload)
    ELSE JsonDumps(payload)

\* bytes.startswith
StartsWith(data, prefix) ==
    Len(data) >= Len(prefix) /\ SubSeq(data, 1, Len(prefix)) = prefix

\* A plausible slip: the JUMBF tag is not stripped before the JSON parse.
deserialize_outer_bytes_KeepTag(data) ==
    The({IF j.ok THEN j.v
         ELSE The({IF c.ok THEN c.v ELSE Null : c \in {CborLoads(data)}})
         : j \in {JsonLoads(data)}})

\* _deserialize_outer_bytes(data): the deserialized object, Null for None.
deserialize_outer_bytes(data) ==
    IF StartsWith(data, Lit.JUMBF)
    THEN The({IF j.ok THEN j.v ELSE Null : j \in {JsonLoads(SubSeq(data, 6, Len(data)))}})
    ELSE The({IF j.ok THEN j.v
              ELSE The({IF c.ok THEN c.v ELSE Null : c \in {CborLoads(data)}})
              : j \in {JsonLoads(data)}})

\* A plausible slip: the key the verifier never reads is not asked for.
required_keys_NoFormat == {Key.payload, Key.signature, Key.signer_id}

required_keys == {Key.payload, Key.signature, Key.signer_id, Key.format}

\* _extract_outer_payload(text): the outer envelope, Null for None.
extract_outer_payload(text) ==
    The({
        IF outer_bytes = <<>> THEN Null
        ELSE The({
            IF outer_data = Null THEN Null
            ELSE IF ~IsDict(outer_data) THEN Null
            ELSE IF ~(\A key \in required_keys : HasKey(outer_data, key)) THEN Null
            ELSE outer_data
            : outer_data \in {deserialize_outer_bytes(outer_bytes)}})
        : outer_bytes \in {extract_bytes(text)}})

\* ------------------------------------------------------------------------
\* Key resolvers (the public_key_provider argument)
\* ------------------------------------------------------------------------
\* A resolver is named by what it does with the signer_id it is given; the
\* outcome of a call is the key object it returns, or "raise".

Resolvers == {"always_pkA", "always_pkB", "by_id", "returns_None", "raises",
              "returns_rsa", "returns_object"}

S_a == Str(<<97>>)
S_b == Str(<<98>>)

CallResolver(resolver, signer_id) ==
    CASE resolver = "always_pkA" -> "pkA"
      [] resolver = "always_pkB" -> "pkB"
      [] resolver = "by_id" ->
            IF signer_id = S_a THEN "pkA" ELSE IF signer_id = S_b THEN "pkB" ELSE "None"
      [] resolver = "returns_None" -> "None"
      [] resolver = "raises" -> "raise"
      [] resolver = "returns_rsa" -> "rsa_pk"
      [] resolver = "returns_object" -> "object"

\* ------------------------------------------------------------------------
\* Verification and extraction
\* ------------------------------------------------------------------------

\* What a call of the verifier gives: raised is "none" when it returned the
\* tuple (payload, valid, signer_id), else the exception it raised; calls
\* lists the arguments the resolver was called with, and checked tells
\* whether verify_signature was called.
VResult(raised, payload, valid, signer_id, calls, checked) ==
    [raised |-> raised, payload |-> payload, valid |-> valid,
     signer_id |-> signer_id, calls |-> calls, checked |-> checked]

\* A plausible slip: the flag is not consulted and the payload is handed
\* back on every failure.
OnFailure_Always(inner_payload, return_payload_on_failure) == inner_payload

\* inner_payload if return_payload_on_failure else None
OnFailure(inner_payload, return_payload_on_failure) ==
    IF return_payload_on_failure THEN inner_payload ELSE Null

\* A plausible slip: the signature string is decoded as it stands.
Padded_NoPad(signature_b64) == signature_b64

\* signature_b64 + "=" * (-len(signature_b64) % 4)
Padded(signature_b64) ==
    signature_b64 \o [i \in 1..((4 - (Len(signature_b64) % 4)) % 4) |-> 61]

\* The verifier on the envelope found in the text: the resolver call, the
\* key type check, the copy of the payload, the base64 decoding and the
\* signature check.
VerifyOuter(outer_payload, resolver, return_payload_on_failure) ==
    The({
        LET failed(checked) ==
                VResult("none", OnFailure(inner_payload, return_payload_on_failure),
                        FALSE, signer_id, <<signer_id>>, checked)
        IN  IF public_key = "raise" THEN failed(FALSE)
            ELSE IF public_key = "None" THEN failed(FALSE)
            ELSE IF public_key \notin (PublicKeys \cup {"rsa_pk"}) THEN failed(FALSE)
            ELSE IF ~copied.ok THEN failed(FALSE)
            ELSE IF ~IsStr(signature_b64) THEN failed(FALSE)
            ELSE The({
                IF decoded.err = "binascii.Error" THEN failed(FALSE)
                ELSE IF decoded.err # "none"
                THEN VResult(decoded.err, Null, FALSE, Null, <<signer_id>>, FALSE)
                ELSE The({
                    IF verdict.err # "none" THEN failed(TRUE)
                    ELSE IF verdict.valid
                    THEN VResult("none", inner_payload, TRUE, signer_id, <<signer_id>>, TRUE)
                    ELSE failed(TRUE)
                    : verdict \in {verify_signature(public_key,
                                                    serialize_payload(copied.v, "json"),
                                                    decoded.bytes)}})
                : decoded \in {urlsafe_b64decode(Padded(signature_b64.s))}})
        : signer_id \in {GetKey(outer_payload, Key.signer_id)},
          inner_payload \in {GetKey(outer_payload, Key.payload)},
          signature_b64 \in {GetKey(outer_payload, Key.signature)},
          public_key \in {CallResolver(resolver, GetKey(outer_payload, Key.signer_id))},
          copied \in {DictOf(GetKey(outer_payload, Key.payload))}})

verify_and_extract_metadata(text, resolver, return_payload_on_failure) ==
    The({
        IF outer_payload = Null THEN VResult("none", Null, FALSE, Null, <<>>, FALSE)
        ELSE VerifyOuter(outer_payload, resolver, return_payload_on_failure)
        : outer_payload \in {extract_outer_payload(text)}})

\* verify_metadata(text, public_key_provider, return_payload_on_failure):
\* text is a Python value, resolver a resolver or "not_callable".
verify_metadata(text, resolver, return_payload_on_failure) ==
    IF ~IsStr(text) THEN VResult("TypeError", Null, FALSE, Null, <<>>, FALSE)
    ELSE IF text.s = <<>> THEN VResult("none", Null, FALSE, Null, <<>>, FALSE)
    ELSE IF resolver = "not_callable"
    THEN VResult("TypeError", Null, FALSE, Null, <<>>, FALSE)
    ELSE verify_and_extract_metadata(text.s, resolver, return_payload_on_failure)

\* A plausible slip: the payload is handed back without the check that it
\* is a dict.
extract_metadata_NoCheck(text) ==
    IF ~IsStr(text) THEN [raised |-> "TypeError", value |-> Null]
    ELSE The({
        IF Truthy(outer_payload) /\ HasKey(outer_payload, Key.payload)
        THEN [raised |-> "none", value |-> GetKey(outer_payload, Key.payload)]
        ELSE [raised |-> "none", value |-> Null]
        : outer_payload \in {extract_outer_payload(text.s)}})

\* extract_metadata(text): raised is "TypeError" for a text that is no
\* str; otherwise value is the inner payload, Null for None.
extract_metadata(text) ==
    IF ~IsStr(text) THEN [raised |-> "TypeError", value |-> Null]
    ELSE The({
        IF Truthy(outer_payload) /\ HasKey(outer_payload, Key.payload)
        THEN The({[raised |-> "none", value |-> IF IsDict(payload) THEN payload ELSE Null]
                  : payload \in {GetKey(outer_payload, Key.payload)}})
        ELSE [raised |-> "none", value |-> Null]
        : outer_payload \in {extract_outer_payload(text.s)}})

\* ------------------------------------------------------------------------
\* The target finder
\* ------------------------------------------------------------------------

\* The values of the members of MetadataTarget, as code points.
Target ==
    [whitespace |-> <<119, 104, 105, 116, 101, 115, 112, 97, 99, 101>>,
     punctuation |-> <<112, 117, 110, 99, 116, 117, 97, 116, 105, 111, 110>>,
     first_letter |-> <<102, 105, 114, 115, 116, 95, 108, 101, 116, 116, 101, 114>>,
     last_letter |-> <<108, 97, 115, 116, 95, 108, 101, 116, 116, 101, 114>>,
     all_characters |-> <<97, 108, 108, 95, 99, 104, 97, 114, 97, 99, 116, 101, 114, 115>>]

\* The values of the MetadataTarget members that have a pattern.
MetadataTarget ==
    {Target.whitespace, Target.punctuation, Target.first_letter, Target.last_letter,
     Target.all_characters}

Enum(value) == [t |-> "enum", s |-> value, m |-> <<>>]

\* str.lower() on the ASCII letters
Lower(cps) == [i \in 1..Len(cps) |->
                  IF 65 <= cps[i] /\ cps[i] <= 90 THEN cps[i] + 32 ELSE cps[i]]

\* \s of a str pattern
IsSpace(c) ==
    \/ c \in {9, 10, 11, 12, 13, 28, 29, 30, 31, 32, 133, 160, 5760, 8232, 8233,
              8239, 8287, 12288}
    \/ (8192 <= c /\ c <= 8202)

\* \w of a str pattern, on the characters of the model (ASCII and the
\* variation selectors, which are marks and no word characters).
IsWord(c) ==
    \/ (48 <= c /\ c <= 57) \/ (65 <= c /\ c <= 90) \/ (97 <= c /\ c <= 122)
    \/ c = 95

IsPunct(c) == c \in {46, 44, 33, 63, 59, 58}

\* Whether the pattern of the target matches the one character at index i.
PatternMatches(target_enum, text, i) ==
    LET c == At(text, i)
    IN  CASE target_enum = Target.whitespace -> IsSpace(c)
          [] target_enum = Target.punctuation -> IsPunct(c)
          [] target_enum = Target.first_letter ->
                IsWord(c) /\ (i = 0 \/ ~IsWord(At(text, i - 1)))
          [] target_enum = Target.last_letter ->
                IsWord(c) /\ (i = Len(text) - 1 \/ ~IsWord(At(text, i + 1)))
          [] target_enum = Target.all_characters -> c # 10

\* The validation of the target argument: "ok", "ValueError" or "TypeError".
TargetCheck(target) ==
    IF target = Null THEN "ok"
    ELSE IF target.t = "enum" THEN "ok"
    ELSE IF target.t = "str"
    THEN IF Lower(target.s) \in MetadataTarget THEN "ok" ELSE "ValueError"
    ELSE "TypeError"

TargetEnum(target) ==
    IF target = Null THEN Target.whitespace
    ELSE IF target.t = "enum" THEN target.s
    ELSE Lower(target.s)

\* A plausible slip: the indices are those of the characters that follow
\* the matches (match.end() in place of match.start()).
find_targets_End(text, target) ==
    LET target_enum == TargetEnum(target)
    IN  SelectSeq([i \in 1..Len(text) |-> i],
                  LAMBDA i : PatternMatches(target_enum, text, i - 1))

\* find_targets(text, target), for a target that passed TargetCheck: the
\* 0-based indices of the matches, in increasing order.
find_targets(text, target) ==
    LET target_enum == TargetEnum(target)
    IN  SelectSeq([i \in 1..Len(text) |-> i - 1],
                  LAMBDA i : PatternMatches(target_enum, text, i))

\* ------------------------------------------------------------------------
\* Timestamps
\* ------------------------------------------------------------------------
\* A timestamp argument is a record: k is its Python type ("none", "str",
\* "datetime", "date", "int", "float", "other"); s the characters of a str;
\* f = <<year, month, day, hour, minute, second>> the fields of a datetime
\* or date; aware tells whether a datetime carries a tzinfo and off is its
\* UTC offset in minutes; n the number of an int (seconds) or of a float
\* (in milliseconds).

TsNone == [k |-> "none", s |-> <<>>, f |-> <<>>, aware |-> FALSE, off |-> 0, n |-> 0]
TsStr(cps) == [k |-> "str", s |-> cps, f |-> <<>>, aware |-> FALSE, off |-> 0, n |-> 0]
TsDatetime(f, aware, off) ==
    [k |-> "datetime", s |-> <<>>, f |-> f, aware |-> aware, off |-> off, n |-> 0]
TsDate(y, mo, d) ==
    [k |-> "date", s |-> <<>>, f |-> <<y, mo, d, 0, 0, 0>>, aware |-> FALSE,
     off |-> 0, n |-> 0]
TsInt(n) == [k |-> "int", s |-> <<>>, f |-> <<>>, aware |-> FALSE, off |-> 0, n |-> n]
TsFloat(ms) == [k |-> "float", s |-> <<>>, f |-> <<>>, aware |-> FALSE, off |-> 0, n |-> ms]
TsOther == [k |-> "other", s |-> <<>>, f |-> <<>>, aware |-> FALSE, off |-> 0, n |-> 0]

\* Days since 1970-01-01 of a date of the proleptic Gregorian calendar.
DaysFromCivil(y0, m, d) ==
    The({era * 146097 + yoe * 365 + yoe \div 4 - yoe \div 100
             + (153 * (IF m > 2 THEN m - 3 ELSE m + 9) + 2) \div 5 + d - 1 - 719468
         : era \in {(IF m <= 2 THEN y0 - 1 ELSE y0) \div 400},
           yoe \in {(IF m <= 2 THEN y0 - 1 ELSE y0) % 400}})

CivilFromDays(z0) ==
    The({The({The({<<IF mp < 10 THEN yoe + era * 400 ELSE yoe + era * 400 + 1,
                     IF mp < 10 THEN mp + 3 ELSE mp - 9,
                     doy - (153 * mp + 2) \div 5 + 1>>
                   : mp \in {(5 * doy + 2) \div 153}})
              : doy \in {doe - (365 * yoe + yoe \div 4 - yoe \div 100)}})
         : era \in {(z0 + 719468) \div 146097},
           doe \in {(z0 + 719468) % 146097},
           yoe \in {LET doe0 == (z0 + 719468) % 146097
                    IN  (doe0 - doe0 \div 1460 + doe0 \div 36524 - doe0 \div 146096)
                        \div 365}})

IsLeap(y) == (y % 4 = 0 /\ y % 100 # 0) \/ y % 400 = 0

DaysInMonth(y, m) ==
    IF m = 2 THEN (IF IsLeap(y) THEN 29 ELSE 28)
    ELSE IF m \in {4, 6, 9, 11} THEN 30 ELSE 31

ValidFields(f) ==
    /\ 1 <= f[1] /\ f[1] <= 9999 /\ 1 <= f[2] /\ f[2] <= 12
    /\ 1 <= f[3] /\ f[3] <= DaysInMonth(f[1], f[2])
    /\ 0 <= f[4] /\ f[4] <= 23 /\ 0 <= f[5] /\ f[5] <= 59 /\ 0 <= f[6] /\ f[6] <= 59

\* The instant of the wall-clock fields f read at UTC offset off (in
\* minutes), as <<days since 1970-01-01, second of the day>>.
InstantOf(f, off) ==
    LET secs == f[4] * 3600 + f[5] * 60 + f[6] - off * 60
    IN  <<DaysFromCivil(f[1], f[2], f[3]) + secs \div 86400, secs % 86400>>

\* The UTC wall-clock fields of an instant.
FieldsOf(instant) ==
    The({<<ymd[1], ymd[2], ymd[3], instant[2] \div 3600, (instant[2] \div 60) % 60,
           instant[2] % 60>>
         : ymd \in {CivilFromDays(instant[1])}})

IsDigit(c) == 48 <= c /\ c <= 57

\* The number written by the digits cs[a..b], NoneInt when one is no digit.
RECURSIVE DigitsValue(_, _, _)
DigitsValue(cs, a, b) ==
    IF a > b THEN 0
    ELSE IF b > Len(cs) \/ ~IsDigit(cs[b]) THEN NoneInt
    ELSE LET rest == DigitsValue(cs, a, b - 1)
         IN  IF rest = NoneInt THEN NoneInt ELSE rest * 10 + (cs[b] - 48)

\* str.replace("Z", "+00:00")
ReplaceZ(cs) ==
    Flatten([i \in 1..Len(cs) |-> IF cs[i] = 90 THEN <<43, 48, 48, 58, 48, 48>>
                                  ELSE <<cs[i]>>])

\* datetime.fromisoformat on the forms YYYY-MM-DD and YYYY-MM-DDTHH:MM:SS,
\* the latter with an optional offset +HH:MM or -HH:MM; ok is FALSE where
\* it raises ValueError.  Other ISO 8601 forms are outside the model.
FromIsoFormat(cs) ==
    The({
        LET bad == [ok |-> FALSE, f |-> <<>>, aware |-> FALSE, off |-> 0]
            dateOk == Len(cs) >= 10 /\ cs[5] = 45 /\ cs[8] = 45
                      /\ y # NoneInt /\ mo # NoneInt /\ d # NoneInt
            timeOk == Len(cs) >= 19 /\ cs[11] = 84 /\ cs[14] = 58 /\ cs[17] = 58
                      /\ h # NoneInt /\ mi # NoneInt /\ sec # NoneInt
            offOk == Len(cs) = 25 /\ cs[20] \in {43, 45} /\ cs[23] = 58
                     /\ oh # NoneInt /\ om # NoneInt /\ oh <= 23 /\ om <= 59
        IN  IF ~dateOk THEN bad
            ELSE IF Len(cs) = 10
            THEN IF ValidFields(<<y, mo, d, 0, 0, 0>>)
                 THEN [ok |-> TRUE, f |-> <<y, mo, d, 0, 0, 0>>, aware |-> FALSE, off |-> 0]
                 ELSE bad
            ELSE IF ~timeOk \/ ~ValidFields(<<y, mo, d, h, mi, sec>>) THEN bad
            ELSE IF Len(cs) = 19
            THEN [ok |-> TRUE, f |-> <<y, mo, d, h, mi, sec>>, aware |-> FALSE, off |-> 0]
            ELSE IF offOk
            THEN [ok |-> TRUE, f |-> <<y, mo, d, h, mi, sec>>, aware |-> TRUE,
                  off |-> (IF cs[20] = 45 THEN 0 - 1 ELSE 1) * (oh * 60 + om)]
            ELSE bad
        : y \in {DigitsValue(cs, 1, 4)}, mo \in {DigitsValue(cs, 6, 7)},
          d \in {DigitsValue(cs, 9, 10)}, h \in {DigitsValue(cs, 12, 13)},
          mi \in {DigitsValue(cs, 15, 16)}, sec \in {DigitsValue(cs, 18, 19)},
          oh \in {DigitsValue(cs, 21, 22)}, om \in {DigitsValue(cs, 24, 25)}})

Pad2(n) == <<48 + (n \div 10), 48 + (n % 10)>>

Pad4(n) == <<48 + (n \div 1000), 48 + ((n \div 100) % 10), 48 + ((n \div 10) % 10),
             48 + (n % 10)>>

\* dt.strftime("%Y-%m-%dT%H:%M:%SZ").  The C library writes %Y: some pad the
\* year to four digits (pads_year), glibc writes it without leading zeros.
StrFTime(f, pads_year) ==
    (IF pads_year THEN Pad4(f[1]) ELSE Decimal(f[1])) \o <<45>> \o Pad2(f[2]) \o <<45>> \o Pad2(f[3]) \o <<84>>
    \o Pad2(f[4]) \o <<58>> \o Pad2(f[5]) \o <<58>> \o Pad2(f[6]) \o <<90>>

\* The first and last day of the years 1..9999.
MinDay == DaysFromCivil(1, 1, 1)
MaxDay == DaysFromCivil(9999, 12, 31)

\* A plausible slip: the offset of an aware value is dropped, the wall
\* clock fields are written as they are.
format_timestamp_NoConvert(ts, pads_year) ==
    IF ts.k = "str"
    THEN The({IF parsed.ok THEN [err |-> "none", v |-> Str(StrFTime(parsed.f, pads_year))]
              ELSE [err |-> "ValueError", v |-> Null]
              : parsed \in {FromIsoFormat(ReplaceZ(ts.s))}})
    ELSE IF ts.k \in {"datetime", "date"} THEN [err |-> "none", v |-> Str(StrFTime(ts.f, pads_year))]
    ELSE [err |-> "ValueError", v |-> Null]

\* The formatting of an instant: OverflowError outside the years 1..9999.
FormatInstant(instant, pads_year) ==
    IF instant[1] < MinDay \/ instant[1] > MaxDay
    THEN [err |-> "OverflowError", v |-> Null]
    ELSE [err |-> "none", v |-> Str(StrFTime(FieldsOf(instant), pads_year))]

\* _format_timestamp(ts), on a platform whose strftime pads the year or
\* does not: err is "none" with v the formatted str (Null for None), or the
\* exception raised.  Numbers are those of 32 bits, which
\* all lie within the years datetime can hold.
format_timestamp(ts, pads_year) ==
    IF ts.k = "none" THEN [err |-> "none", v |-> Null]
    ELSE IF ts.k = "other" THEN [err |-> "TypeError", v |-> Null]
    ELSE IF ts.k = "str"
    THEN The({IF ~parsed.ok THEN [err |-> "ValueError", v |-> Null]
              ELSE FormatInstant(InstantOf(parsed.f, IF parsed.aware THEN parsed.off ELSE 0),
                                 pads_year)
              : parsed \in {FromIsoFormat(ReplaceZ(ts.s))}})
    ELSE IF ts.k \in {"datetime", "date"}
    THEN FormatInstant(InstantOf(ts.f, IF ts.aware THEN ts.off ELSE 0), pads_year)
    ELSE The({FormatInstant(<<secs \div 86400, secs % 86400>>, pads_year)
              : secs \in {IF ts.k = "float" THEN ts.n \div 1000 ELSE ts.n}})

\* ------------------------------------------------------------------------
\* embed_metadata
\* ------------------------------------------------------------------------

Bool(b) == [t |-> "bool", s |-> <<IF b THEN 1 ELSE 0>>, m |-> <<>>]

\* The values of the members of SerializationFormat, as code points.
Format ==
    [json |-> <<106, 115, 111, 110>>,
     cbor |-> <<99, 98, 111, 114>>,
     jumbf |-> <<106, 117, 109, 98, 102>>]

\* The name serialize_payload knows a SerializationFormat member by.
FormatName(serialization_format) ==
    IF serialization_format.s = Format.cbor THEN "cbor"
    ELSE IF serialization_format.s = Format.jumbf THEN "jumbf"
    ELSE "json"

standard_keys == {Key.signer_id, Key.timestamp, Key.format, Key.model_id, Key.generationID}

\* {k: v for k, v in custom_metadata.items() if k not in standard_keys}
FilterCustom(custom_metadata) ==
    Map(SelectSeq(custom_metadata.m, LAMBDA e : e[1] \notin standard_keys))

\* if cond: d[k] = v
SetIf(d, cond, k, v) == IF cond THEN SetKey(d, k, v) ELSE d

\* d.update(entries): the first n entries are assigned into d in turn.
RECURSIVE UpdateDict(_, _, _)
UpdateDict(d, entries, n) ==
    IF n = 0 THEN d
    ELSE SetKey(UpdateDict(d, entries, n - 1), entries[n][1], entries[n][2])

\* A plausible slip: the custom entries are merged into the payload's top
\* level in place of being nested.
BasicPayload_Merged(a, iso_timestamp) ==
    UpdateDict(SetIf(SetIf(Map(<< <<Key.signer_id, a.signer_id>>,
                                  <<Key.timestamp, iso_timestamp>>,
                                  <<Key.format, a.metadata_format>> >>),
                           Truthy(a.model_id), Key.model_id, a.model_id),
                     Truthy(a.generationID), Key.generationID, a.generationID),
               IF Truthy(a.custom_metadata) THEN a.custom_metadata.m ELSE <<>>,
               IF Truthy(a.custom_metadata) THEN Len(a.custom_metadata.m) ELSE 0)

\* A plausible slip: the format is left out of the payload.
BasicPayload_NoFormat(a, iso_timestamp) ==
    SetIf(Map(<< <<Key.signer_id, a.signer_id>>, <<Key.timestamp, iso_timestamp>> >>),
          Truthy(a.model_id), Key.model_id, a.model_id)

\* The payload_data of the basic format.
BasicPayload(a, iso_timestamp) ==
    SetIf(SetIf(SetIf(Map(<< <<Key.signer_id, a.signer_id>>,
                             <<Key.timestamp, iso_timestamp>>,
                             <<Key.format, a.metadata_format>> >>),
                      Truthy(a.model_id), Key.model_id, a.model_id),
                Truthy(a.generationID), Key.generationID, a.generationID),
          Truthy(a.custom_metadata), Key.custom_metadata,
          IF \E e \in {a.custom_metadata.m[i] : i \in 1..Len(a.custom_metadata.m)} :
                 e[1] \in standard_keys
          THEN FilterCustom(a.custom_metadata)
          ELSE a.custom_metadata)

\* inner_manifest as it is before the model_id block.
InnerManifest(a) ==
    SetIf(SetIf(SetIf(SetIf(Map(<<>>),
                            Truthy(a.claim_generator), Key.claim_generator,
                            a.claim_generator),
                      Truthy(a.actions), Key.actions, a.actions),
                Truthy(a.ai_info), Key.ai_info, a.ai_info),
          Truthy(a.custom_claims), Key.custom_claims, a.custom_claims)

\* A plausible slip: the model_id block puts a new dict with the model_id
\* alone under ai_info.
WithModelId_Replace(inner_manifest, model_id) ==
    IF ~Truthy(model_id) THEN inner_manifest
    ELSE SetKey(inner_manifest, Key.ai_info, Map(<< <<Key.model_id, model_id>> >>))

\* The model_id block: inner_manifest["ai_info"]["model_id"] = model_id,
\* on a new dict if there is no ai_info.
WithModelId(inner_manifest, model_id) ==
    IF ~Truthy(model_id) THEN inner_manifest
    ELSE SetKey(inner_manifest, Key.ai_info,
                SetKey(IF HasKey(inner_manifest, Key.ai_info)
                       THEN GetKey(inner_manifest, Key.ai_info)
                       ELSE Map(<<>>),
                       Key.model_id, model_id))

\* The manifest format: payload is payload_data; ai_info is the object the
\* caller passed as ai_info, as it is after the block (the block stores
\* that object itself in inner_manifest and then assigns into it).
ManifestPayload(a, iso_timestamp) ==
    The({[payload |-> Map(<< <<Key.signer_id, a.signer_id>>,
                             <<Key.timestamp, iso_timestamp>>,
                             <<Key.format, a.metadata_format>>,
                             <<Key.manifest, inner_manifest>> >>),
          ai_info |-> IF Truthy(a.ai_info) /\ Truthy(a.model_id)
                      THEN GetKey(inner_manifest, Key.ai_info)
                      ELSE a.ai_info]
         : inner_manifest \in {WithModelId(InnerManifest(a), a.model_id)}})

\* One turn of the loop that interleaves the selectors: st.k counts the
\* targets visited (1-based), st.result_parts is the text built so far.
DistributeStep(text, target_indices, selector_chars, st) ==
    IF st.k > Len(target_indices) \/ st.selector_idx >= Len(selector_chars) THEN st
    ELSE LET target_idx == target_indices[st.k]
         IN  [k |-> st.k + 1,
              result_parts |-> st.result_parts
                               \o Slice(text, st.last_text_idx, target_idx)
                               \o <<At(text, target_idx)>>
                               \o <<At(selector_chars, st.selector_idx)>>,
              last_text_idx |-> target_idx + 1,
              selector_idx |-> st.selector_idx + 1]

RECURSIVE DistributeLoop(_, _, _, _, _)
DistributeLoop(text, target_indices, selector_chars, st, n) ==
    IF n = 0 THEN st
    ELSE IF n = 1 THEN DistributeStep(text, target_indices, selector_chars, st)
    ELSE LET half == DistributeLoop(text, target_indices, selector_chars, st, n \div 2)
         IN  IF half.selector_idx >= Len(selector_chars) THEN half
             ELSE DistributeLoop(text, target_indices, selector_chars, half,
                                 n - (n \div 2))

\* A plausible slip: each selector is put in front of its target character.
Distribute_Before(text, target_indices, selector_chars) ==
    LET n == Len(selector_chars)
        isTarget(i) == \E k \in 1..n : target_indices[k] = i - 1
        rank(i) == CHOOSE k \in 1..n : target_indices[k] = i - 1
    IN  Flatten([i \in 1..Len(text) |->
                    IF isTarget(i) THEN <<selector_chars[rank(i)], text[i]>>
                    ELSE <<text[i]>>])

\* The distributed branch, for enough targets (sorted, as the branch sorts
\* the list find_targets gave, which is sorted already).
Distribute(text, target_indices, selector_chars) ==
    The({st.result_parts \o Slice(text, st.last_text_idx, Len(text))
         : st \in {DistributeLoop(text, target_indices, selector_chars,
                                  [k |-> 1, result_parts |-> <<>>, last_text_idx |-> 0,
                                   selector_idx |-> 0],
                                  Len(target_indices))}})

\* A plausible slip: the selectors replace the target character.
SinglePoint_DropTarget(text, target_indices, selector_chars) ==
    LET target_idx == target_indices[1]
    IN  Slice(text, 0, target_idx) \o selector_chars
        \o Slice(text, target_idx + 1, Len(text))

\* A plausible slip: the selectors go behind the last target.
SinglePoint_LastTarget(text, target_indices, selector_chars) ==
    LET target_idx == target_indices[Len(target_indices)]
    IN  Slice(text, 0, target_idx + 1) \o selector_chars
        \o Slice(text, target_idx + 1, Len(text))

\* The single-point branch.
SinglePoint(text, target_indices, selector_chars) ==
    LET target_idx == target_indices[1]
    IN  Slice(text, 0, target_idx + 1) \o selector_chars
        \o Slice(text, target_idx + 1, Len(text))

\* A plausible slip: the payload is signed in the transport format.
SignedBytes_Transport(payload_data, serialization_format) ==
    serialize_payload(payload_data, FormatName(serialization_format))

\* The bytes embed_metadata signs.
SignedBytes(payload_data, serialization_format) == serialize_payload(payload_data, "json")

\* What a call of embed_metadata gives: raised is "none" when it returned
\* text, else the exception; payload, outer and outer_bytes are the inner
\* payload, the envelope and its serialization as built before the
\* splice; ai_info is the caller's ai_info object after the call.
EResult(raised, text, payload, outer, outer_bytes, ai_info) ==
    [raised |-> raised, text |-> text, payload |-> payload, outer |-> outer,
     outer_bytes |-> outer_bytes, ai_info |-> ai_info]

ERaise(exc, a) == EResult(exc, <<>>, Null, Null, <<>>, a.ai_info)

\* A plausible slip: the distributed branch does not compare the number of
\* targets with the number of selectors, and returns the text with as many
\* selectors as there are targets.
Placed_NoCapacityCheck(a, built, outer_payload_to_embed, outer_bytes, selector_chars, target_indices) ==
    LET done(text) == EResult("none", text, built.payload, outer_payload_to_embed,
                              outer_bytes, built.ai_info)
    IN  IF selector_chars = <<>> THEN done(a.text.s)
        ELSE IF target_indices = <<>>
        THEN EResult("ValueError", <<>>, built.payload, outer_payload_to_embed,
                     outer_bytes, built.ai_info)
        ELSE IF a.distribute_across_targets = Bool(TRUE)
        THEN done(Distribute(a.text.s, target_indices, selector_chars))
        ELSE done(SinglePoint(a.text.s, target_indices, selector_chars))

\* The end of embed_metadata: the selectors go into the text, in one of the
\* two modes. A call that raises here gives no text; the result keeps the
\* payload, the envelope and its bytes as they were built before.
Placed(a, built, outer_payload_to_embed, outer_bytes, selector_chars, target_indices) ==
    LET done(text) == EResult("none", text, built.payload, outer_payload_to_embed,
                              outer_bytes, built.ai_info)
        failed(exc) == EResult(exc, <<>>, built.payload, outer_payload_to_embed,
                               outer_bytes, built.ai_info)
    IN  IF selector_chars = <<>> THEN done(a.text.s)
        ELSE IF target_indices = <<>> THEN failed("ValueError")
        ELSE IF a.distribute_across_targets = Bool(TRUE)
        THEN IF Len(target_indices) < Len(selector_chars) THEN failed("ValueError")
             ELSE done(Distribute(a.text.s, target_indices, selector_chars))
        ELSE done(SinglePoint(a.text.s, target_indices, selector_chars))

\* The middle of embed_metadata, from the payload built (built.payload is
\* payload_data): the signature, the envelope, its bytes, their selectors
\* and the targets.
SignAndPlace(a, built) ==
    The({The({Placed(a, built, outer_payload_to_embed, outer_bytes,
                     bytes_to_variation_selectors(outer_bytes),
                     find_targets(a.text.s, IF a.target # Null THEN a.target
                                            ELSE Enum(Target.whitespace)))
              : outer_bytes \in {serialize_payload(outer_payload_to_embed,
                                                   FormatName(a.serialization_format))}})
         : outer_payload_to_embed \in
              {Map(<< <<Key.payload, built.payload>>,
                      <<Key.signature,
                        Str(RStripPad(urlsafe_b64encode(
                                sign_payload(a.private_key,
                                             SignedBytes(built.payload,
                                                         a.serialization_format)))))>>,
                      <<Key.signer_id, a.signer_id>>,
                      <<Key.format, a.metadata_format>> >>)}})

embed_metadata(a, pads_year) ==
    IF a.serialization_format.t # "enum" THEN ERaise("AttributeError", a)
    ELSE IF ~IsStr(a.text) THEN ERaise("TypeError", a)
    ELSE IF a.private_key \notin PrivateKeys THEN ERaise("TypeError", a)
    ELSE IF ~Truthy(a.signer_id) \/ ~IsStr(a.signer_id) THEN ERaise("ValueError", a)
    ELSE IF a.timestamp.k = "none" THEN ERaise("ValueError", a)
    ELSE IF TargetCheck(a.target) # "ok" THEN ERaise(TargetCheck(a.target), a)
    ELSE IF a.metadata_format \notin {Str(Lit.basic), Str(Lit.manifest)}
    THEN ERaise("ValueError", a)
    ELSE IF a.serialization_format.s \notin {Format.json, Format.cbor, Format.jumbf}
    THEN ERaise("ValueError", a)
    ELSE IF a.model_id # Null /\ ~IsStr(a.model_id) THEN ERaise("TypeError", a)
    ELSE IF a.distribute_across_targets.t # "bool" THEN ERaise("TypeError", a)
    ELSE The({
        IF ts.err \in {"ValueError", "TypeError"} THEN ERaise("ValueError", a)
        ELSE IF ts.err # "none" THEN ERaise(ts.err, a)
        ELSE IF a.metadata_format = Str(Lit.manifest) /\ Truthy(a.ai_info)
                /\ Truthy(a.model_id) /\ ~IsDict(a.ai_info)
        THEN ERaise("TypeError", a)
        ELSE SignAndPlace(a, IF a.metadata_format = Str(Lit.basic)
                             THEN [payload |-> BasicPayload(a, ts.v),
                                   ai_info |-> a.ai_info]
                             ELSE ManifestPayload(a, ts.v))
        : ts \in {format_timestamp(a.timestamp, pads_year)}})

\* ------------------------------------------------------------------------
\* The state machine
\* ------------------------------------------------------------------------
\* pc     what was done last
\* call   the arguments of the embed_metadata call
\* emb    what that call gave
\* text   the text in hand: the embedded text, later tampered with, or a
\*        text written by someone else
\* vin    the resolver and flag given to verify_metadata, and the Python
\*        value passed as its text
\* ver    what verify_metadata gave
\* ext    what extract_metadata gave
\* pure   the input and output of a call of one of the codec's functions
\* pdf    the PDF file at the output path

VARIABLES pc, call, emb, text, vin, ver, ext, pure, pdf

vars == <<pc, call, emb, text, vin, ver, ext, pure, pdf>>

S_m == Str(<<109>>)

Ts_offset == TsStr(<<50,48,50,52,45,48,51,45,48,49,84,48,49,58,51,48,58,48,48,
                     43,48,50,58,48,48>>)
Ts_epoch == TsInt(1704067200)

\* The call embed_metadata(text, private_key, signer_id, timestamp=...)
\* with every other parameter at its default.
DefaultCall(host, private_key, signer_id, timestamp) ==
    [text |-> host, private_key |-> private_key, signer_id |-> signer_id,
     metadata_format |-> Str(Lit.basic), serialization_format |-> Enum(Format.json),
     model_id |-> Null, timestamp |-> timestamp, generationID |-> Null,
     target |-> Null, custom_metadata |-> Null, claim_generator |-> Null,
     actions |-> Null, ai_info |-> Null, custom_claims |-> Null,
     distribute_across_targets |-> Bool(FALSE)]

NoCall == DefaultCall(Null, "None", Null, TsNone)
NoEmb == EResult("none", <<>>, Null, Null, <<>>, Null)
NoVin == [resolver |-> "none", flag |-> FALSE, text |-> Null]
NoVer == VResult("none", Null, FALSE, Null, <<>>, FALSE)
NoExt == [raised |-> "none", value |-> Null]
NoPure == [op |-> "none", arg |-> <<>>, anchor |-> 0, sel |-> <<>>, out |-> <<>>]
NoPdf == [exists |-> FALSE, via |-> "none", lines |-> <<>>, has_info |-> FALSE, info |-> <<>>]

\* Host texts: "a b", "ab." (no whitespace), a line break followed by ".a",
\* the empty text, "a b" with a variation selector of its own behind the
\* "a", and a long text of LongLen characters, three blanks and a letter in
\* turn.

\* Length of the long host text.
LongLen == 204

LongText == [i \in 1..LongLen |-> IF i % 4 = 0 THEN 97 ELSE 32]

HostTexts ==
    {<<97, 32, 98>>, <<97, 98, 46>>, <<10, 46, 97>>, <<>>, <<97, 65039, 32, 98>>, LongText}

Targets == {Null, Enum(Target.all_characters), Enum(Target.punctuation)}

Init ==
    /\ pc = "init"
    /\ call = NoCall
    /\ emb = NoEmb
    /\ text = <<>>
    /\ vin = NoVin
    /\ ver = NoVer
    /\ ext = NoExt
    /\ pure = NoPure
    /\ pdf = NoPdf

\* A call of embed_metadata with valid arguments.
Embed ==
    /\ pc = "init"
    /\ \E host \in HostTexts, sk \in PrivateKeys, sid \in {S_a, S_b},
          mf \in {Str(Lit.basic), Str(Lit.manifest)},
          sf \in {Enum(Format.json), Enum(Format.cbor), Enum(Format.jumbf)},
          tg \in Targets, dist \in BOOLEAN, mid \in {Null, S_m},
          ts \in {Ts_offset, Ts_epoch} :
          \E a \in {[DefaultCall(Str(host), sk, sid, ts) EXCEPT
                        !.metadata_format = mf, !.serialization_format = sf,
                        !.target = tg, !.distribute_across_targets = Bool(dist),
                        !.model_id = mid]} :
             \E pads_year \in BOOLEAN : \E r \in {embed_metadata(a, pads_year)} :
                /\ call' = a
                /\ emb' = r
                /\ text' = r.text
    /\ pc' = "embedded"
    /\ UNCHANGED <<vin, ver, ext, pure, pdf>>

\* A call of verify_metadata on the text in hand.
Verify ==
    /\ pc \in {"embedded", "tampered", "crafted", "pdf_text", "suffixed"}
    /\ emb.raised = "none"
    /\ \E resolver \in Resolvers, flag \in BOOLEAN :
          /\ vin' = [resolver |-> resolver, flag |-> flag, text |-> Str(text)]
          /\ ver' = verify_metadata(Str(text), resolver, flag)
    /\ pc' = "verified"
    /\ UNCHANGED <<call, emb, text, ext, pure, pdf>>

\* Values that are no str.
NonStrings == {Null, IntV(1)}

\* A call of extract_metadata on the text in hand, or on a value that is
\* no str.
Extract ==
    /\ pc \in {"embedded", "tampered", "crafted", "suffixed"}
    /\ emb.raised = "none"
    /\ \E v \in {Str(text)} \cup NonStrings :
          /\ vin' = [resolver |-> "none", flag |-> FALSE, text |-> v]
          /\ ext' = extract_metadata(v)
    /\ pc' = "extracted"
    /\ UNCHANGED <<call, emb, text, ver, pure, pdf>>

Next == Embed \/ Verify \/ Extract

Spec == Init /\ [][Next]_vars

\* ------------------------------------------------------------------------
\* Properties of embedding followed by verification
\* ------------------------------------------------------------------------

\* The arguments and the anchors of the embed call the state records.
Host == call.text.s
Anchors == find_targets(Host, IF call.target # Null THEN call.target ELSE Enum(Target.whitespace))
Distributed == call.distribute_across_targets = Bool(TRUE)
NoSelectorIn(cps) == \A i \in 1..Len(cps) : ~IsVS(cps[i])
ResolverGivesSignersKey ==
    CallResolver(vin.resolver, call.signer_id) = PublicOf(call.private_key)

\* What the round trip promises: the payload embed_metadata built, with the
\* signer, the normalized timestamp and the format in it, a True verdict
\* and the signer id.
RoundTripResult ==
    /\ ver.raised = "none"
    /\ ver.payload = emb.payload
    /\ ver.valid
    /\ ver.signer_id = call.signer_id
    /\ GetKey(ver.payload, Key.signer_id) = call.signer_id
    /\ GetKey(ver.payload, Key.timestamp) = format_timestamp(call.timestamp, TRUE).v
    /\ GetKey(ver.payload, Key.format) = call.metadata_format

\* C1: in single-point mode, for a host text without variation selectors
\* that has an anchor, embedding succeeds, and verifying the result with a
\* resolver that returns the signer's public key gives (P, True, signer_id)
\* with P the payload that was built and signed, whatever the payload
\* format and the serialization format.
C1_SinglePointRoundTrip ==
    /\ (pc = "embedded" /\ ~Distributed /\ Anchors # <<>>) => emb.raised = "none"
    /\ (pc = "verified" /\ ~Distributed /\ NoSelectorIn(Host) /\ ResolverGivesSignersKey)
       => RoundTripResult

C1_Witness ==
    /\ pc = "verified" /\ ~Distributed /\ NoSelectorIn(Host) /\ ResolverGivesSignersKey
    /\ call.serialization_format = Enum(Format.cbor)
    /\ call.metadata_format = Str(Lit.manifest)
    /\ vin.resolver = "by_id"
    /\ ver.valid

\* C2: in distributed mode, for a host text with at least as many anchors
\* as the envelope has bytes, verifying the embedded text with a resolver
\* that returns the signer's public key gives (P, True, signer_id).
C2_DistributedRoundTrip ==
    (pc = "verified" /\ Distributed /\ NoSelectorIn(Host) /\ ResolverGivesSignersKey
       /\ Len(Anchors) >= Len(emb.outer_bytes))
    => RoundTripResult

\* The positions (1-based) of the result at which the embedder put the n
\* selectors: behind the first anchor in single-point mode, one behind each
\* of the first n anchors in distributed mode.
Inserted(anchors, n, distributed) ==
    {(IF distributed THEN anchors[k] + k + 1 ELSE anchors[1] + 1 + k) : k \in 1..n}

\* The sequence s without the characters at the positions of the set P.
Without(s, P) ==
    LET kept == SelectSeq([i \in 1..Len(s) |-> i], LAMBDA i : i \notin P)
    IN  [j \in 1..Len(kept) |-> s[kept[j]]]

\* C9: whenever embed_metadata succeeds, in either mode, the result is n
\* characters longer than the host text (n the number of envelope bytes),
\* the n inserted characters are variation selectors, and deleting them
\* gives back the host text.
C9_HostTextPreserved ==
    (pc = "embedded" /\ emb.raised = "none")
    => LET n == Len(emb.outer_bytes)
           r == emb.text
           P == Inserted(Anchors, n, Distributed)
       IN  /\ n > 0
           /\ Len(r) = Len(Host) + n
           /\ Cardinality(P) = n
           /\ \A p \in P : p <= Len(r) /\ IsVS(r[p])
           /\ Without(r, P) = Host

C9_Witness ==
    /\ pc = "embedded" /\ emb.raised = "none" /\ Distributed
    /\ Len(emb.text) = LongLen + Len(emb.outer_bytes)

\* C10: when embed_metadata succeeds in distributed mode with an envelope
\* of n bytes, the selector of the k-th envelope byte stands right behind
\* the k-th anchor character (k = 1..n), the character after it is the one
\* that followed the anchor in the host text, and from the character after
\* the n-th anchor on the host text stands unchanged, so no later anchor
\* has anything inserted behind it.
C10_DistributedPlacement ==
    (pc = "embedded" /\ emb.raised = "none" /\ Distributed)
    => LET n == Len(emb.outer_bytes)
           r == emb.text
           host == Host
           anchors == Anchors
       IN  /\ Len(anchors) >= n
           /\ \A k \in 1..n :
                 /\ r[anchors[k] + k] = host[anchors[k] + 1]
                 /\ r[anchors[k] + k + 1] = to_variation_selector(emb.outer_bytes[k])
                 /\ anchors[k] + 2 <= Len(host)
                       => r[anchors[k] + k + 2] = host[anchors[k] + 2]
           /\ \A i \in (anchors[n] + 2)..Len(host) : r[i + n] = host[i]
           /\ Len(r) = Len(host) + n

C10_Witness ==
    /\ pc = "embedded" /\ emb.raised = "none" /\ Distributed
    /\ Len(Anchors) > Len(emb.outer_bytes)
    /\ call.target = Null

\* C11: with valid arguments, embed_metadata raises ValueError and gives no
\* text exactly when the target policy finds no anchor in the text (as in
\* every empty text), or when distribute_across_targets is true and there
\* are fewer anchors than envelope bytes; in every other case it returns a
\* text, which holds the whole envelope: no partly embedded text comes back.
C11_CapacityFailures ==
    pc = "embedded"
    => /\ emb.raised \in {"none", "ValueError"}
       /\ emb.raised = "ValueError"
          <=> \/ Anchors = <<>>
              \/ Distributed /\ Len(Anchors) < Len(emb.outer_bytes)
       /\ emb.raised = "ValueError" => emb.text = <<>> /\ text = <<>>
       /\ emb.raised = "none"
          => /\ Len(emb.outer_bytes) > 0
             /\ Len(emb.text) = Len(Host) + Len(emb.outer_bytes)

C11_Witness ==
    /\ pc = "embedded" /\ emb.raised = "ValueError"
    /\ Distributed /\ Anchors # <<>> /\ Len(Anchors) < Len(emb.outer_bytes)

\* C22: when embed_metadata succeeds with distribute_across_targets False,
\* the result is the host text up to and with the character at t, then the
\* selectors of all the envelope bytes in their order, then the rest of the
\* host text, t being the smallest index the target policy gives; and with
\* no target argument the policy is whitespace.
C22_SinglePointPlacement ==
    (pc = "embedded" /\ emb.raised = "none" /\ ~Distributed)
    => LET host == Host
           n == Len(emb.outer_bytes)
           indices == {Anchors[k] : k \in 1..Len(Anchors)}
           t == CHOOSE i \in indices : \A j \in indices : i <= j
       IN  /\ indices # {}
           /\ n > 0
           /\ Len(emb.text) = Len(host) + n
           /\ \A i \in 1..(t + 1) : emb.text[i] = host[i]
           /\ \A k \in 1..n : emb.text[t + 1 + k] = to_variation_selector(emb.outer_bytes[k])
           /\ \A i \in (t + 2)..Len(host) : emb.text[i + n] = host[i]
           /\ call.target = Null
              => /\ IsSpace(host[t + 1])
                 /\ \A i \in 1..t : ~IsSpace(host[i])

C22_Witness ==
    /\ pc = "embedded" /\ emb.raised = "none" /\ ~Distributed
    /\ call.target = Null /\ Host = <<97, 65039, 32, 98>>
    /\ IsVS(emb.text[4]) /\ emb.text[Len(emb.text)] = 98

\* ------------------------------------------------------------------------
\* The codec on its own
\* ------------------------------------------------------------------------

\* How far around the two selector ranges from_variation_selector is tried.
Margin == 16

CodePoints ==
    {0, 32, 97, 1114111}
    \cup ((VARIATION_SELECTOR_START - Margin)..(VARIATION_SELECTOR_END + Margin))
    \cup ((VARIATION_SELECTOR_SUPPLEMENT_START - Margin)
          ..(VARIATION_SELECTOR_SUPPLEMENT_END + Margin))

ByteSamples == {0, 15, 16, 17, 255}

RECURSIVE SeqsUpTo(_, _)
SeqsUpTo(S, n) ==
    IF n = 0 THEN {<<>>}
    ELSE LET shorter == SeqsUpTo(S, n - 1)
         IN  shorter \cup {Append(q, x) : q \in shorter, x \in S}

ByteStrings == SeqsUpTo(ByteSamples, MaxBytesLen)

\* Characters that are no variation selectors: "a", and the code points
\* next to the two ranges.
AnchorChars == {97, VARIATION_SELECTOR_START - 1, VARIATION_SELECTOR_SUPPLEMENT_END + 1}

ToSelector ==
    /\ pure.op = "none"
    /\ \E byte \in 0..255 :
          pure' = [op |-> "to_variation_selector", arg |-> <<byte>>, anchor |-> 0,
                   sel |-> <<to_variation_selector(byte)>>,
                   out |-> <<from_variation_selector(to_variation_selector(byte))>>]
    /\ UNCHANGED <<pc, call, emb, text, vin, ver, ext, pdf>>

FromSelector ==
    /\ pure.op = "none"
    /\ \E code_point \in CodePoints :
          pure' = [op |-> "from_variation_selector", arg |-> <<code_point>>, anchor |-> 0,
                   sel |-> <<>>, out |-> <<from_variation_selector(code_point)>>]
    /\ UNCHANGED <<pc, call, emb, text, vin, ver, ext, pdf>>

\* extract_bytes(X + "".join(_bytes_to_variation_selectors(B)))
EncodeDecode ==
    /\ pure.op = "none"
    /\ \E B \in ByteStrings, X \in AnchorChars :
          LET selectors == bytes_to_variation_selectors(B)
          IN  pure' = [op |-> "round_trip", arg |-> B, anchor |-> X, sel |-> selectors,
                       out |-> extract_bytes(<<X>> \o selectors)]
    /\ UNCHANGED <<pc, call, emb, text, vin, ver, ext, pdf>>

NextCodec == ToSelector \/ FromSelector \/ EncodeDecode

SpecCodec == Init /\ [][NextCodec]_vars

\* C7: for every byte b in 0..255, to_variation_selector(b) is the code
\* point 0xFE00 + b when b < 16 and 0xE0100 + (b - 16) otherwise, and
\* from_variation_selector of that code point is b again; and
\* from_variation_selector gives None for every code point outside
\* U+FE00..U+FE0F and U+E0100..U+E01EF.
C7_SelectorBijection ==
    /\ pure.op = "to_variation_selector"
       => LET b == pure.arg[1]
          IN  /\ pure.sel[1] = IF b < 16 THEN 65024 + b ELSE 917760 + (b - 16)
              /\ pure.out[1] = b
    /\ pure.op = "from_variation_selector"
       => LET cp == pure.arg[1]
          IN  ~((65024 <= cp /\ cp <= 65039) \/ (917760 <= cp /\ cp <= 917999))
              => pure.out[1] = NoneInt

C7_Witness ==
    /\ pure.op = "to_variation_selector"
    /\ pure.arg = <<16>>
    /\ pure.sel = <<917760>>
    /\ pure.out = <<16>>

\* C8: for every byte string B and every character X that is no variation
\* selector, extract_bytes(X + the selectors of B) is B, and B has exactly
\* len(B) selectors.
C8_BytesRoundTrip ==
    pure.op = "round_trip"
    => /\ ~IsVS(pure.anchor)
       /\ Len(pure.sel) = Len(pure.arg)
       /\ pure.out = pure.arg

C8_Witness ==
    /\ pure.op = "round_trip"
    /\ Len(pure.arg) = MaxBytesLen
    /\ pure.arg[1] < 16 /\ pure.arg[MaxBytesLen] >= 16
    /\ pure.out = pure.arg

\* ------------------------------------------------------------------------
\* Tampering with an embedded text
\* ------------------------------------------------------------------------

\* A call of embed_metadata("a b", sk, "a", timestamp=...) in single-point
\* mode, in each payload format and serialization format.
EmbedSinglePoint ==
    /\ pc = "init"
    /\ \E sk \in PrivateKeys, mf \in {Str(Lit.basic), Str(Lit.manifest)},
          sf \in {Enum(Format.json), Enum(Format.cbor), Enum(Format.jumbf)} :
          \E a \in {[DefaultCall(Str(<<97, 32, 98>>), sk, S_a, Ts_offset) EXCEPT
                        !.metadata_format = mf, !.serialization_format = sf]} :
             \E pads_year \in BOOLEAN : \E r \in {embed_metadata(a, pads_year)} :
                /\ call' = a
                /\ emb' = r
                /\ text' = r.text
    /\ pc' = "embedded"
    /\ UNCHANGED <<vin, ver, ext, pure, pdf>>

\* By how much a tampered byte differs from the embedded one (modulo 256).
TamperDeltas == {1, 255}

\* Someone replaces one variation selector of the text by the selector of
\* another byte.
Tamper ==
    /\ pc = "embedded"
    /\ emb.raised = "none"
    /\ \E p \in 1..Len(text), d \in TamperDeltas :
          /\ IsVS(text[p])
          /\ text' = [text EXCEPT ![p] =
                         to_variation_selector((from_variation_selector(text[p]) + d) % 256)]
    /\ pc' = "tampered"
    /\ UNCHANGED <<call, emb, vin, ver, ext, pure, pdf>>

\* A call of verify_metadata on a tampered text.
VerifyTampered ==
    /\ pc = "tampered"
    /\ Verify

NextTamper == EmbedSinglePoint \/ Tamper \/ VerifyTampered

SpecTamper == Init /\ [][NextTamper]_vars

\* C3: after one variation selector of a text embedded in single-point
\* mode has been replaced by the selector of another byte, verify_metadata
\* with a resolver that returns the signer's public key gives the verdict
\* False.
C3_TamperDetected ==
    (pc = "verified" /\ text # emb.text /\ ~Distributed /\ ResolverGivesSignersKey)
    => (ver.raised = "none" /\ ~ver.valid)

\* ------------------------------------------------------------------------
\* Texts written by someone else
\* ------------------------------------------------------------------------

Ts_plain == Str(<<50,48,50,52,45,48,49,45,48,49,84,48,48,58,48,48,58,48,48,90>>)

\* A payload as embed_metadata builds it, and the signature string the
\* embedder puts in the envelope for a payload.
SignedPayload == BasicPayload(DefaultCall(Str(<<97>>), "skA", S_a, TsNone), Ts_plain)
SignatureOf(private_key, payload) ==
    Str(RStripPad(urlsafe_b64encode(
            sign_payload(private_key, serialize_payload(payload, "json")))))

\* Values found in the fields of an envelope: a payload that is a dict, a
\* str, None, a list, an empty dict, an int; a signature by either key, the
\* signature of the empty dict, a str with a character outside ASCII, one
\* of a length base64 cannot have, "!", an int, None; a signer_id that is a
\* str, None or an int.
CraftPayloads == {SignedPayload, Str(<<120>>), Null, List(<<>>), Map(<<>>), IntV(1)}
CraftSignatures ==
    {SignatureOf("skA", SignedPayload), SignatureOf("skB", SignedPayload),
     SignatureOf("skA", Map(<<>>)), Str(<<233>>), Str(<<65>>), Str(<<33>>),
     IntV(5), Null}
CraftSigners == {S_a, S_b, Null, IntV(7)}

Envelope(payload, signature, signer_id) ==
    Map(<< <<Key.payload, payload>>, <<Key.signature, signature>>,
           <<Key.signer_id, signer_id>>, <<Key.format, Str(Lit.basic)>> >>)

\* The envelope without its k-th entry.
Lacking(d, k) == Map(SubSeq(d.m, 1, k - 1) \o SubSeq(d.m, k + 1, Len(d.m)))

CraftValues ==
    {Envelope(p, g, sid) : p \in CraftPayloads, g \in CraftSignatures, sid \in CraftSigners}
    \cup {Lacking(Envelope(SignedPayload, SignatureOf("skA", SignedPayload), S_a), k) :
             k \in 1..4}
    \cup {List(<<>>), Str(<<120>>), Null}

\* Bytes that are no serialization of anything.
CraftBytes == {<<255>>, <<123>>, <<74, 85, 77, 66, 70>>, <<161>>}

\* Someone writes a text: "a" followed by the selectors of the bytes of a
\* serialized value or of other bytes, or a text without selectors.
Craft ==
    /\ pc = "init"
    /\ \/ \E v \in CraftValues, f \in {"json", "cbor", "jumbf"} :
             text' = <<97>> \o bytes_to_variation_selectors(serialize_payload(v, f))
       \/ \E bs \in CraftBytes : text' = <<97>> \o bytes_to_variation_selectors(bs)
       \/ text' \in {<<>>, <<97, 32, 98>>}
    /\ pc' = "crafted"
    /\ UNCHANGED <<call, emb, vin, ver, ext, pure, pdf>>

NextCraft == Craft \/ Verify \/ Extract

SpecCraft == Init /\ [][NextCraft]_vars

\* The envelope the text in hand carries (None if it carries none), and
\* its fields.
OuterOfText == extract_outer_payload(text)

\* C4: verify_metadata of a str, with any resolver, raises nothing, and an
\* envelope whose signature is no str, or a str that is not base64 or not
\* ASCII, gets the verdict False.
C4_VerifyNeverRaises ==
    pc = "verified"
    => /\ ver.raised = "none"
       /\ LET outer == OuterOfText
          IN  (outer # Null /\ GetKey(outer, Key.signature) \in
                  {Str(<<233>>), Str(<<65>>), IntV(5), Null})
              => ~ver.valid

\* C5: a result of verify_metadata is (None, False, None) when the text
\* carries no envelope; otherwise its signer_id is the envelope's, a True
\* verdict comes with the envelope's payload, a False verdict with that
\* payload if return_payload_on_failure is set and with None if not; and a
\* True verdict never comes with a None payload or a None signer_id.
C5_ResultShape ==
    (pc = "verified" /\ ver.raised = "none")
    => LET outer == OuterOfText
       IN  IF outer = Null
           THEN ver.payload = Null /\ ~ver.valid /\ ver.signer_id = Null
           ELSE /\ ver.signer_id = GetKey(outer, Key.signer_id)
                /\ ver.valid => /\ ver.payload = GetKey(outer, Key.payload)
                                /\ ver.payload # Null
                                /\ ver.signer_id # Null
                /\ ~ver.valid => ver.payload = IF vin.flag THEN GetKey(outer, Key.payload)
                                               ELSE Null

\* C6: extract_metadata of a str raises nothing and gives a dict or None,
\* whatever the selectors of the text encode; of a value that is no str it
\* raises TypeError.
C6_ExtractNeverRaises ==
    pc = "extracted"
    => IF IsStr(vin.text)
       THEN /\ ext.raised = "none"
            /\ ext.value = Null \/ IsDict(ext.value)
            /\ LET outer == OuterOfText
               IN  IF outer # Null /\ IsDict(GetKey(outer, Key.payload))
                   THEN ext.value = GetKey(outer, Key.payload)
                   ELSE ext.value = Null
       ELSE ext.raised = "TypeError"

C6_Witness ==
    /\ pc = "extracted"
    /\ IsStr(vin.text)
    /\ OuterOfText # Null
    /\ GetKey(OuterOfText, Key.payload) = Str(<<120>>)
    /\ ext = [raised |-> "none", value |-> Null]


\* ------------------------------------------------------------------------
\* Calls with invalid arguments and with the optional fields
\* ------------------------------------------------------------------------

Ts_unparsable == TsStr(<<110, 111, 119>>)

\* "0001-01-01T00:00:00+02:00": an ISO 8601 string whose instant lies before
\* the first instant a datetime holds.
Ts_before_min ==
    TsStr(<<48,48,48,49,45,48,49,45,48,49,84,48,48,58,48,48,58,48,48,43,48,50,58,48,48>>)

\* datetime(9999, 12, 31, 23, 0, 0, tzinfo=timezone(timedelta(hours=-2)))
Ts_after_max == TsDatetime(<<9999, 12, 31, 23, 0, 0>>, TRUE, 0 - 120)

\* Arguments that break a precondition of embed_metadata, as pairs
\* <<parameter, value>>: a text that is no str; a private key that is None,
\* a public key or an RSA key; a signer_id that is empty or no str; a
\* timestamp that is missing, of no accepted type, not ISO 8601, or out of
\* the range of datetime once brought to UTC; an unknown target or one that
\* is neither a str nor a member; a metadata_format other than "basic" and
\* "manifest"; a serialization_format given as the str "json", as None, or
\* as a member of another enumeration; a model_id that is no str; a
\* distribute_across_targets that is no bool.
InvalidArguments ==
    {<<"text", Null>>, <<"text", IntV(1)>>,
     <<"private_key", "None">>, <<"private_key", "pkA">>, <<"private_key", "rsa_sk">>,
     <<"signer_id", Str(<<>>)>>, <<"signer_id", Null>>, <<"signer_id", IntV(1)>>,
     <<"timestamp", TsNone>>, <<"timestamp", TsOther>>, <<"timestamp", Ts_unparsable>>,
     <<"timestamp", Ts_before_min>>, <<"timestamp", Ts_after_max>>,
     <<"target", Str(<<120>>)>>, <<"target", IntV(1)>>,
     <<"metadata_format", Str(<<120>>)>>, <<"metadata_format", Null>>,
     <<"serialization_format", Str(Format.json)>>, <<"serialization_format", Null>>,
     <<"serialization_format", Enum(<<120>>)>>,
     <<"model_id", IntV(1)>>,
     <<"distribute_across_targets", IntV(1)>>, <<"distribute_across_targets", Null>>}

\* A call of embed_metadata in which one argument breaks its precondition
\* and the others are valid.
EmbedInvalid ==
    /\ pc = "init"
    /\ \E host \in {<<97, 32, 98>>, <<>>},
          mf \in {Str(Lit.basic), Str(Lit.manifest)},
          sf \in {Enum(Format.json), Enum(Format.cbor), Enum(Format.jumbf)},
          dist \in BOOLEAN, bad \in InvalidArguments :
          \E a \in {[[DefaultCall(Str(host), "skA", S_a, Ts_offset) EXCEPT
                         !.metadata_format = mf, !.serialization_format = sf,
                         !.distribute_across_targets = Bool(dist)]
                     EXCEPT ![bad[1]] = bad[2]]} :
             \E pads_year \in BOOLEAN : \E r \in {embed_metadata(a, pads_year)} :
                /\ call' = a
                /\ emb' = r
                /\ text' = r.text
    /\ pc' = "called"
    /\ UNCHANGED <<vin, ver, ext, pure, pdf>>

K_k == <<107>>

\* custom_metadata arguments: none, {}, {"k": 1}, one with a key of its own
\* and the standard key signer_id, and one with the five standard keys
\* only.
CustomMetadatas ==
    {Null, Map(<<>>), Map(<< <<K_k, IntV(1)>> >>),
     Map(<< <<Key.signer_id, S_b>>, <<K_k, IntV(1)>> >>),
     Map(<< <<Key.signer_id, S_b>>, <<Key.timestamp, Str(<<120>>)>>,
            <<Key.format, Str(Lit.manifest)>>, <<Key.model_id, Str(<<120>>)>>,
            <<Key.generationID, Str(<<120>>)>> >>)}

\* ai_info arguments: none, {}, {"k": "x"}, and one with a model_id of its
\* own in front of another entry.
AiInfos ==
    {Null, Map(<<>>), Map(<< <<K_k, Str(<<120>>)>> >>),
     Map(<< <<Key.model_id, Str(<<120>>)>>, <<K_k, Str(<<120>>)>> >>)}

\* A call of embed_metadata with valid arguments, the optional fields
\* among them.
EmbedOptional ==
    /\ pc = "init"
    /\ \E mf \in {Str(Lit.basic), Str(Lit.manifest)},
          sf \in {Enum(Format.json), Enum(Format.cbor), Enum(Format.jumbf)},
          mid \in {Null, Str(<<>>), S_m}, gid \in {Null, Str(<<103>>)},
          cm \in CustomMetadatas, ai \in AiInfos, claims \in BOOLEAN :
          \E a \in {[DefaultCall(Str(<<97, 32, 98>>), "skA", S_a, Ts_offset) EXCEPT
                        !.metadata_format = mf, !.serialization_format = sf,
                        !.model_id = mid, !.generationID = gid,
                        !.custom_metadata = cm, !.ai_info = ai,
                        !.claim_generator = IF claims THEN Str(<<99>>) ELSE Null,
                        !.actions = IF claims
                                    THEN List(<<Map(<< <<K_k, Str(<<120>>)>> >>)>>)
                                    ELSE Null,
                        !.custom_claims = IF claims THEN Map(<< <<K_k, IntV(1)>> >>)
                                          ELSE Null]} :
             \E pads_year \in BOOLEAN : \E r \in {embed_metadata(a, pads_year)} :
                /\ call' = a
                /\ emb' = r
                /\ text' = r.text
    /\ pc' = "embedded"
    /\ UNCHANGED <<vin, ver, ext, pure, pdf>>

NextArgs == EmbedInvalid \/ EmbedOptional

SpecArgs == Init /\ [][NextArgs]_vars

\* C12: a call of embed_metadata in which an argument breaks its
\* precondition raises TypeError or ValueError, and no exception of
\* another kind.
C12_TypedValidationErrors ==
    pc = "called" => emb.raised \in {"TypeError", "ValueError"}

\* C13: a call of embed_metadata, whether it returns or raises, leaves the
\* objects passed to it as they were; the code assigns into one of them
\* only, the ai_info mapping, so the claim is that the caller's ai_info has
\* the same contents after the call as before, even when ai_info and
\* model_id are both given in manifest format.
C13_ArgumentsUnchanged ==
    pc \in {"called", "embedded"} => emb.ai_info = call.ai_info

\* ------------------------------------------------------------------------
\* The PDF engine
\* ------------------------------------------------------------------------

\* The parameters of embed_metadata behind cls, in their order.
embed_metadata_params ==
    <<"text", "private_key", "signer_id", "metadata_format", "serialization_format",
      "model_id", "timestamp", "generationID", "target", "custom_metadata",
      "claim_generator", "actions", "ai_info", "custom_claims",
      "distribute_across_targets">>

\* The binding of a Python call embed_metadata(*positional, **keywords),
\* keywords a sequence of pairs <<name, value>> with distinct names: the
\* i-th positional argument goes to the i-th parameter, a keyword argument
\* to the parameter of its name, the other parameters take their defaults.
\* The call raises TypeError (ok is FALSE) when there are too many
\* positional arguments, when a keyword names no parameter or a parameter
\* that a positional argument fills already, and when text, private_key
\* or signer_id is left without a value.
BindCall(positional, keywords) ==
    LET by_position == {embed_metadata_params[i]
                        : i \in 1..Len(positional) \cap 1..Len(embed_metadata_params)}
        by_keyword == {keywords[i][1] : i \in 1..Len(keywords)}
        all == {embed_metadata_params[i] : i \in 1..Len(embed_metadata_params)}
    IN  IF \/ Len(positional) > Len(embed_metadata_params)
           \/ ~(by_keyword \subseteq all)
           \/ by_keyword \cap by_position # {}
           \/ ~({"text", "private_key", "signer_id"} \subseteq by_position \cup by_keyword)
        THEN [ok |-> FALSE, a |-> NoCall]
        ELSE [ok |-> TRUE,
              a |-> [p \in all |->
                       IF p \in by_position
                       THEN positional[CHOOSE i \in 1..Len(positional) :
                                          embed_metadata_params[i] = p]
                       ELSE IF p \in by_keyword
                       THEN keywords[CHOOSE i \in 1..Len(keywords) : keywords[i][1] = p][2]
                       ELSE NoCall[p]]]

\* The characters str.splitlines() ends a line at.
IsLineBreak(c) == c \in {10, 11, 12, 13, 28, 29, 30, 133, 8232, 8233}

\* text.splitlines(): a carriage return with a line feed behind it ends
\* one line, and a line break at the end opens no further line.
SplitLines(cs) ==
    LET ends == SelectSeq([i \in 1..Len(cs) |-> i],
                          LAMBDA i : IsLineBreak(cs[i])
                                     /\ ~(cs[i] = 13 /\ i < Len(cs) /\ cs[i + 1] = 10))
        from(k) == IF k = 1 THEN 0 ELSE ends[k - 1]
        upto(k) == IF k > Len(ends) THEN Len(cs)
                   ELSE IF cs[ends[k]] = 10 /\ ends[k] > 1 /\ cs[ends[k] - 1] = 13
                   THEN ends[k] - 2
                   ELSE ends[k] - 1
        n == IF ends = <<>> THEN (IF cs = <<>> THEN 0 ELSE 1)
             ELSE IF ends[Len(ends)] < Len(cs) THEN Len(ends) + 1 ELSE Len(ends)
    IN  [k \in 1..n |-> Slice(cs, from(k), upto(k))]

\* generate_pdf(text, output_path): the file holds the lines drawn on the
\* page and, when the rewriting of the file with PyPDF2 went through
\* (stored), the text under the document information key /EncypherText.
generate_pdf(cs, stored, via) ==
    [exists |-> TRUE, via |-> via, lines |-> SplitLines(cs), has_info |-> stored,
     info |-> IF stored THEN cs ELSE <<>>]

\* What pdfminer reads from the page: the lines, each with a line feed
\* behind it, with the variation selectors when the font and the reader
\* keep them (keeps_selectors) and without them otherwise.
TextLayer(lines, keeps_selectors) ==
    Flatten([k \in 1..Len(lines) |->
                SelectSeq(lines[k], LAMBDA c : keeps_selectors \/ ~IsVS(c)) \o <<10>>])

\* The texts extract_text(pdf_path) can return: the document information
\* entry when there is one and it is not empty, else what the page gives.
extract_text(file) ==
    IF file.has_info /\ file.info # <<>> THEN {file.info}
    ELSE {TextLayer(file.lines, keeps_selectors) : keeps_selectors \in BOOLEAN}

\* What a call of from_text gives: bound tells whether the call of
\* embed_metadata could bind its arguments, emb is what embed_metadata gave
\* (TypeError when the arguments could not be bound), file is the PDF file
\* written.
from_text(cs, private_key, signer_id, timestamp, metadata_format, target, metadata_kwargs, stored, pads_year) ==
    The({IF ~bound.ok THEN [bound |-> FALSE, emb |-> ERaise("TypeError", NoCall), file |-> NoPdf]
         ELSE The({[bound |-> TRUE, emb |-> embedded,
                    file |-> IF embedded.raised = "none"
                             THEN generate_pdf(embedded.text, stored, "from_text")
                             ELSE NoPdf]
                   : embedded \in {embed_metadata(bound.a, pads_year)}})
         : bound \in {BindCall(<<cs, private_key, signer_id, timestamp>>,
                               << <<"metadata_format", metadata_format>>,
                                  <<"target", target>> >> \o metadata_kwargs)}})

\* "a", a line feed, "b c"
TwoLines == <<97, 10, 98, 32, 99>>

\* The further keyword arguments handed to from_text.
MetadataKwargs ==
    {<<>>, << <<"model_id", S_m>> >>,
     << <<"model_id", S_m>>, <<"serialization_format", Enum(Format.cbor)>> >>,
     << <<"model_id", S_m>>, <<"distribute_across_targets", Bool(FALSE)>> >>}

\* A call of EncypherPDF.from_text.  call records the arguments as from_text
\* received them.
FromText ==
    /\ pc = "init"
    /\ \E host \in {<<97, 32, 98>>, TwoLines}, sk \in PrivateKeys, sid \in {S_a, S_b},
          ts \in {Ts_offset, Ts_epoch}, mf \in {Str(Lit.basic), Str(Lit.manifest)},
          tg \in {Null, Enum(Target.whitespace)}, kw \in MetadataKwargs,
          stored \in BOOLEAN, pads_year \in BOOLEAN :
          \E r \in {from_text(Str(host), sk, sid, ts, mf, tg, kw, stored, pads_year)} :
             /\ call' = [p \in DOMAIN NoCall |->
                           IF \E i \in 1..Len(kw) : kw[i][1] = p
                           THEN kw[CHOOSE i \in 1..Len(kw) : kw[i][1] = p][2]
                           ELSE [DefaultCall(Str(host), sk, sid, ts) EXCEPT
                                    !.metadata_format = mf, !.target = tg][p]]
             /\ emb' = r.emb
             /\ text' = r.emb.text
             /\ pdf' = r.file
    /\ pc' = "from_text"
    /\ UNCHANGED <<vin, ver, ext, pure>>

\* A call of EncypherPDF.generate_pdf on the embedded text in hand.
GeneratePdf ==
    /\ pc = "embedded"
    /\ emb.raised = "none"
    /\ \E stored \in BOOLEAN : pdf' = generate_pdf(text, stored, "generate_pdf")
    /\ pc' = "pdf"
    /\ UNCHANGED <<call, emb, text, vin, ver, ext, pure>>

\* A call of EncypherPDF.extract_text on the file.
ExtractText ==
    /\ pc \in {"from_text", "pdf"}
    /\ pdf.exists
    /\ text' \in extract_text(pdf)
    /\ pc' = "pdf_text"
    /\ UNCHANGED <<call, emb, vin, ver, ext, pure, pdf>>

NextPdf == EmbedSinglePoint \/ FromText \/ GeneratePdf \/ ExtractText \/ Verify

SpecPdf == Init /\ [][NextPdf]_vars

\* C14: for a text with a whitespace anchor, from_text(text, path,
\* private_key, signer_id, timestamp, metadata_format="basic",
\* target=whitespace, model_id=m) writes a PDF file from which extract_text
\* returns the embedded string, and verify_metadata on it, with a resolver
\* that gives the signer's public key, returns a True verdict, the
\* signer_id, and a payload whose model_id is m and whose timestamp is the
\* normalized timestamp argument.
C14_PdfRoundTrip ==
    LET claimed == /\ pdf.via = "from_text" \/ pc = "from_text"
                   /\ Anchors # <<>>
                   /\ call.metadata_format = Str(Lit.basic)
                   /\ call.target = Enum(Target.whitespace)
                   /\ call.model_id = S_m
    IN  /\ (pc = "from_text" /\ claimed)
           => emb.raised = "none" /\ pdf.exists /\ pdf.info = emb.text
        /\ (pc = "pdf_text" /\ claimed) => text = emb.text
        /\ (pc = "verified" /\ claimed /\ ResolverGivesSignersKey)
           => /\ ver.raised = "none" /\ ver.valid
              /\ ver.signer_id = call.signer_id
              /\ GetKey(ver.payload, Key.model_id) = S_m
              /\ GetKey(ver.payload, Key.timestamp) = format_timestamp(call.timestamp, TRUE).v

\* ------------------------------------------------------------------------
\* Extraction followed by verification of the same text
\* ------------------------------------------------------------------------

\* A call of verify_metadata on the text extract_metadata was called on.
VerifyExtracted ==
    /\ pc = "extracted"
    /\ IsStr(vin.text)
    /\ \E resolver \in Resolvers, flag \in BOOLEAN :
          /\ vin' = [vin EXCEPT !.resolver = resolver, !.flag = flag]
          /\ ver' = verify_metadata(vin.text, resolver, flag)
    /\ pc' = "extracted_verified"
    /\ UNCHANGED <<call, emb, text, ext, pure, pdf>>

NextAgree == Embed \/ Extract \/ VerifyExtracted

SpecAgree == Init /\ [][NextAgree]_vars

\* C15: for a text that a successful single-point embed_metadata call
\* returned, extract_metadata and verify_metadata (with a resolver that
\* gives the signer's public key) return the same mapping, keys in the same
\* order, and it is the inner payload that was signed.
C15_ExtractAgreesWithVerify ==
    (pc = "extracted_verified" /\ ~Distributed /\ ResolverGivesSignersKey)
    => /\ ext.raised = "none" /\ ver.raised = "none"
       /\ ext.value = ver.payload
       /\ ver.payload = emb.payload

\* ------------------------------------------------------------------------
\* Properties of the payload and the envelope built
\* ------------------------------------------------------------------------

\* The keys of a mapping, in their order.
KeysOf(d) == [i \in 1..Len(d.m) |-> d.m[i][1]]

\* C16: every outer envelope embed_metadata builds has exactly the four
\* top-level keys payload, signature, signer_id and format; its signer_id
\* is the payload's signer_id and its format the payload's format, and the
\* payload holds signer_id, timestamp and format.
C16_EnvelopeWellFormed ==
    (pc \in {"called", "embedded"} /\ emb.outer # Null)
    => /\ Len(emb.outer.m) = 4
       /\ {KeysOf(emb.outer)[i] : i \in 1..4}
          = {Key.payload, Key.signature, Key.signer_id, Key.format}
       /\ GetKey(emb.outer, Key.payload) = emb.payload
       /\ IsDict(emb.payload)
       /\ {Key.signer_id, Key.timestamp, Key.format}
          \subseteq {KeysOf(emb.payload)[i] : i \in 1..Len(emb.payload.m)}
       /\ GetKey(emb.outer, Key.signer_id) = GetKey(emb.payload, Key.signer_id)
       /\ GetKey(emb.outer, Key.format) = GetKey(emb.payload, Key.format)
       /\ IsStr(GetKey(emb.outer, Key.signature))

C16_Witness ==
    /\ pc = "embedded" /\ emb.raised = "none" /\ emb.outer # Null
    /\ call.metadata_format = Str(Lit.basic)
    /\ Truthy(call.custom_metadata) /\ HasKey(call.custom_metadata, Key.signer_id)
    /\ GetKey(emb.outer, Key.signer_id) = S_a

\* C18: in basic format, whatever the custom_metadata mapping, the
\* payload's top-level signer_id, timestamp, format, model_id and
\* generationID come from the arguments of these names only, the custom
\* entries stand only under the nested key custom_metadata, and the nested
\* mapping holds exactly the custom entries whose key is none of the five
\* standard keys, in their order.
C18_CustomMetadataNested ==
    (pc = "embedded" /\ call.metadata_format = Str(Lit.basic) /\ emb.payload # Null)
    => LET P == emb.payload
           cm == call.custom_metadata
           five == {Key.signer_id, Key.timestamp, Key.format, Key.model_id,
                    Key.generationID}
           has(k) == \E i \in 1..Len(P.m) : P.m[i][1] = k
       IN  /\ GetKey(P, Key.signer_id) = call.signer_id
           /\ GetKey(P, Key.timestamp) = format_timestamp(call.timestamp, TRUE).v
           /\ GetKey(P, Key.format) = call.metadata_format
           /\ has(Key.model_id) <=> Truthy(call.model_id)
           /\ has(Key.model_id) => GetKey(P, Key.model_id) = call.model_id
           /\ has(Key.generationID) <=> Truthy(call.generationID)
           /\ has(Key.generationID) => GetKey(P, Key.generationID) = call.generationID
           /\ \A i \in 1..Len(P.m) : P.m[i][1] \in five \cup {Key.custom_metadata}
           /\ \A i, j \in 1..Len(P.m) : P.m[i][1] = P.m[j][1] => i = j
           /\ has(Key.custom_metadata) <=> Truthy(cm)
           /\ has(Key.custom_metadata)
              => GetKey(P, Key.custom_metadata)
                 = Map(SelectSeq(cm.m, LAMBDA e : e[1] \notin five))

C18_Witness ==
    /\ pc = "embedded" /\ call.metadata_format = Str(Lit.basic) /\ emb.raised = "none"
    /\ Truthy(call.custom_metadata)
    /\ HasKey(call.custom_metadata, Key.signer_id) /\ HasKey(call.custom_metadata, K_k)
    /\ GetKey(emb.payload, Key.custom_metadata) = Map(<< <<K_k, IntV(1)>> >>)
    /\ call.model_id = S_m

\* C19: in manifest format, when a non-empty model_id is given, the
\* payload's manifest.ai_info.model_id is that model_id, the other entries
\* of the ai_info given are kept (and no further entry appears), and the
\* payload has no top-level model_id; when no model_id is given, or an
\* empty one, manifest.ai_info is there only if a non-empty ai_info was
\* given, and is equal to it.
C19_ManifestModelId ==
    (pc = "embedded" /\ call.metadata_format = Str(Lit.manifest) /\ emb.payload # Null)
    => LET P == emb.payload
           manifest == GetKey(P, Key.manifest)
           given == IF Truthy(call.ai_info) THEN call.ai_info.m ELSE <<>>
           others == SelectSeq(given, LAMBDA e : e[1] # Key.model_id)
       IN  /\ HasKey(P, Key.manifest) /\ IsDict(manifest)
           /\ ~HasKey(P, Key.model_id)
           /\ Truthy(call.model_id)
              => /\ HasKey(manifest, Key.ai_info)
                 /\ LET ai == GetKey(manifest, Key.ai_info)
                    IN  /\ IsDict(ai)
                        /\ GetKey(ai, Key.model_id) = call.model_id
                        /\ SelectSeq(ai.m, LAMBDA e : e[1] # Key.model_id) = others
                        /\ Len(ai.m) = Len(others) + 1
           /\ ~Truthy(call.model_id)
              => /\ HasKey(manifest, Key.ai_info) <=> Truthy(call.ai_info)
                 /\ HasKey(manifest, Key.ai_info)
                    => GetKey(manifest, Key.ai_info) = call.ai_info

C19_Witness ==
    /\ pc = "embedded" /\ call.metadata_format = Str(Lit.manifest) /\ emb.raised = "none"
    /\ call.model_id = S_m
    /\ Truthy(call.ai_info) /\ HasKey(call.ai_info, Key.model_id)
    /\ GetKey(GetKey(GetKey(emb.payload, Key.manifest), Key.ai_info), K_k) = Str(<<120>>)

\* ------------------------------------------------------------------------
\* The target finder on its own
\* ------------------------------------------------------------------------

\* Longest text given to find_targets.
MaxTextLen == 3

\* The characters of the texts: "a", a blank, a full stop, a line feed, a
\* carriage return and the variation selector U+FE0F.
TextChars == {97, 32, 46, 10, 13, 65039}

\* The target arguments: None, the members that have a pattern, and two
\* strs that name a member.
TargetArguments ==
    {Null} \cup {Enum(t) : t \in MetadataTarget}
    \cup {Str(Target.all_characters), Str(<<80>> \o Slice(Target.punctuation, 1, 11))}

\* A call of find_targets(text, target); the str of a target goes to sel,
\* its kind to op.
FindTargets ==
    /\ pure.op = "none"
    /\ \E cs \in SeqsUpTo(TextChars, MaxTextLen), target \in TargetArguments :
          pure' = [op |-> "find_targets", arg |-> cs, anchor |-> 0,
                   sel |-> TargetEnum(target), out |-> find_targets(cs, target)]
    /\ UNCHANGED <<pc, call, emb, text, vin, ver, ext, pdf>>

NextTargets == FindTargets

SpecTargets == Init /\ [][NextTargets]_vars

\* C20: for every text, find_targets(text, all_characters) returns exactly
\* the indices 0 .. len(text) - 1, whatever the characters are, line breaks
\* among them.
C20_AllCharactersAnchorsAll ==
    (pure.op = "find_targets" /\ pure.sel = Target.all_characters)
    => pure.out = [i \in 1..Len(pure.arg) |-> i - 1]

\* ------------------------------------------------------------------------
\* The normalization of timestamps on its own
\* ------------------------------------------------------------------------

\* Timestamps given as strs.
TimestampStrings ==
    {
     \* "2024-03-01T01:30:00+02:00"
     TsStr(<<50, 48, 50, 52, 45, 48, 51, 45, 48, 49, 84, 48, 49, 58, 51, 48, 58, 48, 48, 43, 48, 50, 58, 48, 48>>),
     \* "2024-02-29T23:30:00Z"
     TsStr(<<50, 48, 50, 52, 45, 48, 50, 45, 50, 57, 84, 50, 51, 58, 51, 48, 58, 48, 48, 90>>),
     \* "2024-03-01"
     TsStr(<<50, 48, 50, 52, 45, 48, 51, 45, 48, 49>>),
     \* "2024-03-01T00:00:00"
     TsStr(<<50, 48, 50, 52, 45, 48, 51, 45, 48, 49, 84, 48, 48, 58, 48, 48, 58, 48, 48>>),
     \* "0999-01-02T03:04:05Z"
     TsStr(<<48, 57, 57, 57, 45, 48, 49, 45, 48, 50, 84, 48, 51, 58, 48, 52, 58, 48, 53, 90>>),
     \* "1999-12-31T23:59:59-00:30"
     TsStr(<<49, 57, 57, 57, 45, 49, 50, 45, 51, 49, 84, 50, 51, 58, 53, 57, 58, 53, 57, 45, 48, 48, 58, 51, 48>>),
     \* "9999-12-31T23:59:59Z"
     TsStr(<<57, 57, 57, 57, 45, 49, 50, 45, 51, 49, 84, 50, 51, 58, 53, 57, 58, 53, 57, 90>>),
     \* "0001-01-01T00:00:00Z"
     TsStr(<<48, 48, 48, 49, 45, 48, 49, 45, 48, 49, 84, 48, 48, 58, 48, 48, 58, 48, 48, 90>>),
     \* "0001-01-01T00:00:00+02:00"
     TsStr(<<48, 48, 48, 49, 45, 48, 49, 45, 48, 49, 84, 48, 48, 58, 48, 48, 58, 48, 48, 43, 48, 50, 58, 48, 48>>),
     \* "2023-02-29"
     TsStr(<<50, 48, 50, 51, 45, 48, 50, 45, 50, 57>>),
     \* "now"
     TsStr(<<110, 111, 119>>)}

\* Wall-clock fields of datetime and date values: a leap day, a year of
\* three digits, the first and the last second a datetime holds, the epoch
\* and the end of a year.
FieldSamples ==
    {<<2024, 2, 29, 23, 30, 0>>, <<999, 1, 2, 3, 4, 5>>, <<1, 1, 1, 0, 0, 0>>,
     <<9999, 12, 31, 23, 59, 59>>, <<1970, 1, 1, 0, 0, 0>>, <<2000, 12, 31, 23, 59, 59>>}

\* UTC offsets of aware datetimes, in minutes.
OffsetSamples == {0, 120, 0 - 90, 330}

\* Epoch seconds, and floats in milliseconds.
EpochSamples == {0, 1704067200, 0 - 1, 86399, 951782400, 2147483647, 0 - 2147483647}
MillisecondSamples == {1500, 0 - 500, 999, 86399999}

Timestamps ==
    TimestampStrings
    \cup {TsDatetime(f, FALSE, 0) : f \in FieldSamples}
    \cup {TsDatetime(f, TRUE, off) : f \in FieldSamples, off \in OffsetSamples}
    \cup {TsDate(f[1], f[2], f[3]) : f \in FieldSamples}
    \cup {TsInt(n) : n \in EpochSamples}
    \cup {TsFloat(ms) : ms \in MillisecondSamples}
    \cup {TsOther}

\* A call of _format_timestamp(ts): arg holds ts, out what the call gave,
\* anchor is 1 where strftime pads the year.
FormatTimestamp ==
    /\ pure.op = "none"
    /\ \E ts \in Timestamps, pads_year \in BOOLEAN :
          pure' = [op |-> "format_timestamp", arg |-> <<ts>>,
                   anchor |-> IF pads_year THEN 1 ELSE 0, sel |-> <<>>,
                   out |-> <<format_timestamp(ts, pads_year)>>]
    /\ UNCHANGED <<pc, call, emb, text, vin, ver, ext, pdf>>

\* A call of _format_timestamp on the str an earlier call returned: sel
\* keeps what the earlier call was given.
Renormalize ==
    /\ pure.op = "format_timestamp"
    /\ pure.out[1].err = "none"
    /\ pure' = [pure EXCEPT !.op = "renormalized", !.sel = pure.arg,
                            !.arg = <<TsStr(pure.out[1].v.s)>>,
                            !.out = <<format_timestamp(TsStr(pure.out[1].v.s),
                                                       pure.anchor = 1)>>]
    /\ UNCHANGED <<pc, call, emb, text, vin, ver, ext, pdf>>

NextTime == FormatTimestamp \/ Renormalize

SpecTime == Init /\ [][NextTime]_vars

\* Whether cs has the form YYYY-MM-DDTHH:MM:SSZ.
IsCanonicalForm(cs) ==
    /\ Len(cs) = 20
    /\ \A i \in {1, 2, 3, 4, 6, 7, 9, 10, 12, 13, 15, 16, 18, 19} : IsDigit(cs[i])
    /\ cs[5] = 45 /\ cs[8] = 45 /\ cs[11] = 84 /\ cs[14] = 58 /\ cs[17] = 58
    /\ cs[20] = 90

\* The instant a str of the canonical form denotes.
InstantWritten(cs) ==
    InstantOf(<<DigitsValue(cs, 1, 4), DigitsValue(cs, 6, 7), DigitsValue(cs, 9, 10),
                DigitsValue(cs, 12, 13), DigitsValue(cs, 15, 16),
                DigitsValue(cs, 18, 19)>>, 0)

\* The instant of a timestamp that is no str, in whole seconds: naive
\* values are read as UTC, dates as midnight UTC, numbers as epoch seconds.
InstantGiven(ts) ==
    IF ts.k \in {"datetime", "date"} THEN InstantOf(ts.f, IF ts.aware THEN ts.off ELSE 0)
    ELSE IF ts.k = "int" THEN <<ts.n \div 86400, ts.n % 86400>>
    ELSE <<(ts.n \div 1000) \div 86400, (ts.n \div 1000) % 86400>>

\* C17: for every timestamp it accepts, _format_timestamp returns a str of
\* the exact form YYYY-MM-DDTHH:MM:SSZ that denotes the instant given, in
\* UTC and whole seconds (naive values read as UTC, dates as midnight UTC,
\* numbers as epoch seconds), so that inputs of the same UTC second give
\* the same str; and normalizing a str it returned gives that str again.
C17_TimestampCanonical ==
    (pure.op \in {"format_timestamp", "renormalized"})
    => /\ pure.op = "renormalized" => pure.out[1].err = "none"
       /\ pure.out[1].err = "none"
          => /\ IsStr(pure.out[1].v)
             /\ IsCanonicalForm(pure.out[1].v.s)
             /\ pure.arg[1].k # "str"
                => InstantWritten(pure.out[1].v.s) = InstantGiven(pure.arg[1])
             /\ (pure.arg[1].k = "str" /\ IsCanonicalForm(pure.arg[1].s))
                => pure.out[1].v.s = pure.arg[1].s

\* ------------------------------------------------------------------------
\* The transport of the signature bytes
\* ------------------------------------------------------------------------

\* Byte strings of the length of an Ed25519 signature: all zero, all 255,
\* counting up, and three of mixed bytes.
SignatureSamples ==
    {[i \in 1..64 |-> (i * k + c) % 256]
     : k \in {0, 1, 7, 85}, c \in {0, 255}}

\* Embedder and verifier on one signature: sel is the str the embedder puts
\* in the envelope, anchor the number of "=" the verifier appends, out what
\* the verifier's decoding gives.
SignatureTransport ==
    /\ pure.op = "none"
    /\ \E signature \in ByteStrings \cup SignatureSamples :
          \E signature_b64 \in {RStripPad(urlsafe_b64encode(signature))} :
             pure' = [op |-> "signature_transport", arg |-> signature,
                      anchor |-> Len(Padded(signature_b64)) - Len(signature_b64),
                      sel |-> signature_b64,
                      out |-> <<urlsafe_b64decode(Padded(signature_b64))>>]
    /\ UNCHANGED <<pc, call, emb, text, vin, ver, ext, pdf>>

NextTransport == SignatureTransport

SpecTransport == Init /\ [][NextTransport]_vars

\* C21: for every signature byte string s, the base64url encoding of s
\* without its "=" padding, decoded as the verifier decodes it (with
\* (-len) mod 4 "=" appended), gives s again; the string has no "=" in it,
\* and for a signature of 64 bytes it has 86 characters and two "=" are
\* restored.
C21_SignatureTransport ==
    pure.op = "signature_transport"
    => /\ pure.out[1] = [err |-> "none", bytes |-> pure.arg]
       /\ \A i \in 1..Len(pure.sel) : pure.sel[i] # 61
       /\ Len(pure.sel) = (Len(pure.arg) * 4 + 2) \div 3
       /\ Len(pure.arg) = 64 => Len(pure.sel) = 86 /\ pure.anchor = 2

C21_Witness ==
    /\ pure.op = "signature_transport"
    /\ Len(pure.arg) = 64 /\ pure.arg[1] = 7
    /\ pure.anchor = 2 /\ pure.out[1].bytes = pure.arg

\* ------------------------------------------------------------------------
\* What the scan of a text reads
\* ------------------------------------------------------------------------

\* Texts made of characters that are no selectors, the selectors of a byte
\* string, and what follows: nothing, one character, a character and a
\* later selector, or the code points next to the supplement range.
ScanBefore == SeqsUpTo({97, VARIATION_SELECTOR_START - 1}, 2)
ScanAfter ==
    {<<>>, <<97>>, <<97, VARIATION_SELECTOR_START>>,
     <<VARIATION_SELECTOR_SUPPLEMENT_END + 1, VARIATION_SELECTOR_SUPPLEMENT_END, 32>>}

\* A call of extract_bytes(text) on its own.
ExtractBytes ==
    /\ pc = "init"
    /\ pure.op = "none"
    /\ \E before \in ScanBefore, B \in ByteStrings, after \in ScanAfter :
          \E t \in {before \o bytes_to_variation_selectors(B) \o after} :
             pure' = [op |-> "extract_bytes", arg |-> t, anchor |-> Len(before),
                      sel |-> after, out |-> extract_bytes(t)]
    /\ pc' = "scanned"
    /\ UNCHANGED <<call, emb, text, vin, ver, ext, pdf>>

\* What is written behind an embedded text: one selector, a character and
\* selectors, or a blank and a whole envelope signed by another key.
Suffixes ==
    {<<VARIATION_SELECTOR_START>>,
     <<to_variation_selector(125), 97, to_variation_selector(1)>>,
     <<32>> \o bytes_to_variation_selectors(serialize_payload(
                  Envelope(SignedPayload, SignatureOf("skB", SignedPayload), S_b), "json"))}

\* Someone appends to the embedded text "a " + selectors + "b".
Suffix ==
    /\ pc = "embedded"
    /\ emb.raised = "none"
    /\ \E tail \in Suffixes : text' = text \o tail
    /\ pc' = "suffixed"
    /\ UNCHANGED <<call, emb, vin, ver, ext, pure, pdf>>

\* Calls of verify_metadata and extract_metadata on the lengthened text.
VerifySuffixed ==
    /\ pc = "suffixed"
    /\ Verify

ExtractSuffixed ==
    /\ pc = "suffixed"
    /\ Extract

NextScan == ExtractBytes \/ EmbedSinglePoint \/ Suffix \/ VerifySuffixed \/ ExtractSuffixed

SpecScan == Init /\ [][NextScan]_vars

\* The bytes of the first maximal run of selectors of a text.
FirstRun(t) ==
    LET vs == {i \in 1..Len(t) : IsVS(t[i])}
    IN  IF vs = {} THEN <<>>
        ELSE LET first == CHOOSE i \in vs : \A j \in vs : i <= j
                 run == {j \in vs : \A k \in first..j : k \in vs}
                 last == CHOOSE j \in run : \A k \in run : k <= j
             IN  [k \in 1..(last - first + 1) |->
                    IF t[first + k - 1] <= VARIATION_SELECTOR_END
                    THEN t[first + k - 1] - VARIATION_SELECTOR_START
                    ELSE t[first + k - 1] - VARIATION_SELECTOR_SUPPLEMENT_START + 16]

\* C23: extract_bytes gives the bytes of the first maximal contiguous run
\* of selectors of the text, in order, and the empty byte string when the
\* text has none; and what is appended behind the character that follows
\* the run of an embedded text changes neither the result of
\* verify_metadata nor that of extract_metadata.
C23_FirstRunOnly ==
    /\ pure.op = "extract_bytes" => pure.out = FirstRun(pure.arg)
    /\ (pc = "verified" /\ text # emb.text)
       => /\ ver = verify_metadata(Str(emb.text), vin.resolver, vin.flag)
          /\ ResolverGivesSignersKey
             => (ver.valid /\ ver.payload = emb.payload /\ ver.signer_id = call.signer_id)
    /\ (pc = "extracted" /\ text # emb.text /\ vin.text = Str(text))
       => /\ ext = extract_metadata(Str(emb.text))
          /\ ext.value = emb.payload

C23_Witness ==
    /\ pc = "verified" /\ Len(text) > Len(emb.text) + 3
    /\ IsVS(text[Len(text)]) /\ ~IsVS(text[Len(emb.text)])
    /\ extract_bytes(text) = emb.outer_bytes
    /\ ver.valid /\ vin.resolver = "by_id"

\* ------------------------------------------------------------------------
\* The signature and the transport format
\* ------------------------------------------------------------------------

\* The call in hand with another serialization_format.
SameCallIn(f) == [call EXCEPT !.serialization_format = Enum(f)]

\* C24: the envelope embed_metadata builds has the same "payload" and the
\* same "signature" for serialization_format json, cbor and jumbf, the
\* other arguments being the same; the signature is that of the default
\* serialization of the payload; and a text embedded in any of the three
\* formats is verified under the signer's key.
C24_SignatureFormatIndependent ==
    (pc \in {"embedded", "verified", "extracted"} /\ emb.raised = "none")
    => /\ GetKey(emb.outer, Key.payload) = emb.payload
       /\ GetKey(emb.outer, Key.signature) = SignatureOf(call.private_key, emb.payload)
       /\ \A f \in {Format.json, Format.cbor, Format.jumbf} :
             \E pads_year \in BOOLEAN :
                \E r \in {embed_metadata(SameCallIn(f), pads_year)} :
                   /\ r.payload = emb.payload
                   /\ r.outer = emb.outer
       /\ (pc = "verified" /\ vin.text = Str(emb.text) /\ ~Distributed
           /\ NoSelectorIn(Host) /\ ResolverGivesSignersKey)
          => (ver.raised = "none" /\ ver.valid /\ ver.payload = emb.payload)

C24_Witness ==
    /\ pc = "verified" /\ emb.raised = "none" /\ ver.valid
    /\ call.serialization_format = Enum(Format.cbor)
    /\ call.metadata_format = Str(Lit.manifest)
    /\ emb.outer_bytes # embed_metadata(SameCallIn(Format.json), TRUE).outer_bytes
    /\ emb.outer = embed_metadata(SameCallIn(Format.json), TRUE).outer

\* ------------------------------------------------------------------------
\* The signer a verdict names
\* ------------------------------------------------------------------------

\* C25: whenever verify_metadata, with a resolver that gives each known
\* signer_id the key of that signer, returns the verdict True and a payload
\* that names a signer, the signer_id it returns is the signer_id inside
\* that payload.
C25_VerifiedSignerIsPayloadSigner ==
    (/\ pc = "verified" /\ vin.resolver = "by_id"
     /\ ver.raised = "none" /\ ver.valid
     /\ IsDict(ver.payload) /\ HasKey(ver.payload, Key.signer_id))
    => ver.signer_id = GetKey(ver.payload, Key.signer_id)

\* ------------------------------------------------------------------------
\* The order of the steps of a verification
\* ------------------------------------------------------------------------

\* What the bytes of the first selector run of the text in hand
\* deserialize to, and whether that is a mapping with the four keys.
DataOfText == deserialize_outer_bytes(extract_bytes(text))
FourKeys(data) ==
    /\ IsDict(data)
    /\ HasKey(data, Key.payload) /\ HasKey(data, Key.signature)
    /\ HasKey(data, Key.signer_id) /\ HasKey(data, Key.format)

\* C26: in a call of verify_metadata the resolver is called at most once,
\* with the top-level signer_id of the envelope, and only when the text
\* gave a mapping with the keys payload, signature, signer_id and format;
\* for an empty text, a text without selectors and bytes that give no such
\* mapping the resolver is not called and the result is (None, False,
\* None); and the signature is checked only when the resolver returned a
\* key object.
C26_VerificationOrder ==
    pc = "verified"
    => /\ Len(ver.calls) <= 1
       /\ ver.calls # <<>>
          => /\ FourKeys(DataOfText)
             /\ ver.calls[1] = GetKey(DataOfText, Key.signer_id)
       /\ (text = <<>> \/ NoSelectorIn(text) \/ ~FourKeys(DataOfText))
          => /\ ver.calls = <<>>
             /\ ver.raised = "none"
             /\ ver.payload = Null /\ ~ver.valid /\ ver.signer_id = Null
       /\ ver.checked
          => /\ Len(ver.calls) = 1
             /\ CallResolver(vin.resolver, ver.calls[1]) \in PublicKeys \cup {"rsa_pk"}
       /\ vin.resolver \in {"returns_None", "raises", "returns_object"} => ~ver.checked

C26_Witness ==
    /\ pc = "verified"
    /\ FourKeys(DataOfText)
    /\ GetKey(DataOfText, Key.signer_id) = S_b
    /\ vin.resolver = "by_id"
    /\ ver.calls = <<S_b>>
    /\ ver.checked /\ ~ver.valid

====
